---- MODULE Spec2Model ----
(***************************************************************************)
(* A model of problem-utils: the comment-stripping tokenizer               *)
(* (removeCommentsInSourceCode), the static analyzer                       *)
(* (judgeByStaticAnalysis) and the judging presets (stdioJudgePreset,      *)
(* stdioDebugPreset).                                                      *)
(*                                                                         *)
(* Texts are sequences of one-character strings.  Offsets are the          *)
(* 0-based offsets of the source: Ch(t, i) is t.charAt(i) and              *)
(* Slice(t, a, b) is t.slice(a, b).                                        *)
(***************************************************************************)
EXTENDS Integers, Sequences, FiniteSets, TLC

VARIABLES
  \* ---- removeCommentsInSourceCode ----
  grammer,              \* the grammar argument
  sourceCode,           \* the text argument
  lastIndex,            \* the cursor
  newSourceCodeSlices,  \* the slices pushed so far
  tokenSpans,           \* history: the spans <<kind, start, end>> scanned so far
  tpc,                  \* "idle" | "loop" | "done"
  tokResult,            \* the returned text (once tpc = "done")
  \* ---- judgeByStaticAnalysis ----
  saDirents,            \* the recursive listing of cwd, with each file's text
  saRules,              \* the front matter's pattern rules
  sourceCodeWithoutCommentFiles,
  forbiddenFounds,
  saIdx,                \* the index of the running for loop
  p,                    \* the position of the scan of a forbidden text
  saPc,                 \* "idle" | "readdir" | "forbidden" | "text" | "decide" | "done"
  saResult,             \* the returned verdict (once saPc = "done")
  \* ---- the presets ----
  env,                  \* what the invocation finds: argv, problem, fixtures, submission
  pc,                   \* the position of the running preset
  testCases,            \* the test cases read
  mainFilePath,         \* the entry file the build and run commands get
  idx,                  \* the index of the test case the loop is at
  spawns,               \* history: the processes spawned, in order
  results,              \* the TestCaseResults printed, in order
  fault                 \* the error the invocation died of ("" if none)

tokVars == <<grammer, sourceCode, lastIndex, newSourceCodeSlices, tokenSpans, tpc, tokResult>>

saVars == <<saDirents, saRules, sourceCodeWithoutCommentFiles, forbiddenFounds, saIdx, p, saPc, saResult>>

presetVars == <<env, pc, testCases, mainFilePath, idx, spawns, results, fault>>

vars == <<tokVars, saVars, presetVars>>

\* ------------------------------------------------------------------------
\* Bounds of the model
\* ------------------------------------------------------------------------

\* Most characters of a text handed to the tokenizer under the C-like grammar.
MaxLenC == 4

\* Most pieces (a delimiter or a character) of a text handed to the tokenizer
\* under the Python grammar.
MaxPiecesPy == 4

\* Most characters of a text handed to the tokenizer under a grammar without
\* comment rules.
MaxLenPlain == 3

\* Most pieces of a text with whole comments handed to the tokenizer under
\* the C-like grammar.
MaxPiecesC == 4

\* Most entries of the listing of a submission directory.
MaxDirents == 2

\* Most characters of a file the scan of one forbidden text is followed on.
MaxLenData == 4

\* ------------------------------------------------------------------------
\* Text helpers
\* ------------------------------------------------------------------------

NoMatch == -1

Ch(t, i) == t[i + 1]

Slice(t, a, b) == SubSeq(t, a + 1, b)

RECURSIVE Join(_)
Join(slices) ==
  IF slices = <<>> THEN <<>> ELSE Head(slices) \o Join(Tail(slices))

\* All texts made of at most n pieces drawn from the set A of texts.
RECURSIVE TextsUpTo(_, _)
TextsUpTo(A, n) ==
  IF n = 0 THEN {<<>>}
  ELSE LET shorter == TextsUpTo(A, n - 1)
       IN  shorter \cup {t \o c : t \in shorter, c \in A}

\* text.startsWith(lit, i)
LitAt(t, lit, i) ==
  /\ i + Len(lit) <= Len(t)
  /\ \A k \in 1..Len(lit) : t[i + k] = lit[k]

\* s is a contiguous substring of t
Contains(t, s) ==
  \E i \in 0..(Len(t) - Len(s)) : LitAt(t, s, i)

\* ------------------------------------------------------------------------
\* Regular expressions of the grammar catalog
\*
\* Every open/close pattern of the catalog has one of four shapes:
\*   "ws"        /\n?[ \t]*LIT/               comment open
\*   "lit"       /LIT/                        string open, comment close
\*   "unescaped" /(?<!\\)(?:\\{2})*LIT/        string close
\*   "newline"   /(?=\n)/                     the default close of a comment
\* and the rules of a problem are modelled with the shapes "lit" and
\*   "plus"      /C+/
\* ------------------------------------------------------------------------

WsOpen(lit)       == [shape |-> "ws", lit |-> lit]
Lit(lit)          == [shape |-> "lit", lit |-> lit]
UnescapedLit(lit) == [shape |-> "unescaped", lit |-> lit]
NewlineLookahead  == [shape |-> "newline", lit |-> <<>>]

\* Length of the greedy run [ \t]* starting at offset i.
RECURSIVE BlankRun(_, _)
BlankRun(t, i) ==
  IF i < Len(t) /\ Ch(t, i) \in {" ", "\t"} THEN 1 + BlankRun(t, i + 1) ELSE 0

\* Length of the run of backslashes starting at offset i.
RECURSIVE BackslashRun(_, _)
BackslashRun(t, i) ==
  IF i < Len(t) /\ Ch(t, i) = "\\" THEN 1 + BackslashRun(t, i + 1) ELSE 0

\* /C+/ : a greedy run of one character (a pattern of a problem's rules)
OneOrMore(c) == [shape |-> "plus", lit |-> <<c>>]

\* Length of the run of character c starting at offset i.
RECURSIVE CharRun(_, _, _)
CharRun(t, c, i) ==
  IF i < Len(t) /\ Ch(t, i) = c THEN 1 + CharRun(t, c, i + 1) ELSE 0

\* The length of the match of pattern re anchored at offset i, NoMatch if none.
MatchLenAt(re, t, i) ==
  CASE re.shape = "lit" ->
         IF LitAt(t, re.lit, i) THEN Len(re.lit) ELSE NoMatch
    [] re.shape = "ws" ->
         LET nl == IF i < Len(t) /\ Ch(t, i) = "\n" THEN 1 ELSE 0
             bl == BlankRun(t, i + nl)
         IN  IF LitAt(t, re.lit, i + nl + bl) THEN nl + bl + Len(re.lit) ELSE NoMatch
    [] re.shape = "unescaped" ->
         LET run == BackslashRun(t, i)
         IN  IF /\ (i = 0 \/ Ch(t, i - 1) # "\\")
                /\ run % 2 = 0
                /\ LitAt(t, re.lit, i + run)
             THEN run + Len(re.lit) ELSE NoMatch
    [] re.shape = "newline" ->
         IF i < Len(t) /\ Ch(t, i) = "\n" THEN 0 ELSE NoMatch
    [] re.shape = "plus" ->
         IF CharRun(t, re.lit[1], i) > 0 THEN CharRun(t, re.lit[1], i) ELSE NoMatch

\* RegExp.prototype.exec of a global pattern with lastIndex = from: the
\* leftmost match at or after from, as [index, length], or NoMatch; the
\* offsets are tried from `from` to the end of the text.
RECURSIVE Exec(_, _, _)
Exec(re, t, from) ==
  IF from > Len(t) THEN [index |-> NoMatch, length |-> 0]
  ELSE IF MatchLenAt(re, t, from) # NoMatch
       THEN [index |-> from, length |-> MatchLenAt(re, t, from)]
       ELSE Exec(re, t, from + 1)

\* ------------------------------------------------------------------------
\* The grammar catalog
\* ------------------------------------------------------------------------

cLikeGrammer ==
  [ strings  |-> << [open |-> Lit(<<"'">>),  close |-> UnescapedLit(<<"'">>)],
                    [open |-> Lit(<<"\"">>), close |-> UnescapedLit(<<"\"">>)] >>,
    comments |-> << [open |-> WsOpen(<<"/", "*">>), close |-> Lit(<<"*", "/">>)],
                    [open |-> WsOpen(<<"/", "/">>), close |-> NewlineLookahead] >> ]

pythonGrammer ==
  [ strings  |-> << [open |-> Lit(<<"'", "'", "'">>),    close |-> UnescapedLit(<<"'", "'", "'">>)],
                    [open |-> Lit(<<"\"", "\"", "\"">>), close |-> UnescapedLit(<<"\"", "\"", "\"">>)],
                    [open |-> Lit(<<"'">>),  close |-> UnescapedLit(<<"'">>)],
                    [open |-> Lit(<<"\"">>), close |-> UnescapedLit(<<"\"">>)] >>,
    comments |-> << [open |-> WsOpen(<<"'", "'", "'">>),    close |-> Lit(<<"'", "'", "'">>)],
                    [open |-> WsOpen(<<"\"", "\"", "\"">>), close |-> Lit(<<"\"", "\"", "\"">>)],
                    [open |-> WsOpen(<<"#">>), close |-> NewlineLookahead] >> ]

\* A grammar the LanguageDefinition type allows: string rules, no comment rule.
stringsOnlyGrammer ==
  [ strings  |-> << [open |-> Lit(<<"\"">>), close |-> UnescapedLit(<<"\"">>)] >>,
    comments |-> << >> ]

\* A grammar with no rule at all.
emptyGrammer == [strings |-> << >>, comments |-> << >>]

\* ------------------------------------------------------------------------
\* removeCommentsInSourceCode
\* ------------------------------------------------------------------------

\* The rules in the order the scan tries them: comment rules, then string rules.
CommentOrStringGrammers(g) ==
  [k \in 1..Len(g.comments) |->
     [isComment |-> TRUE, open |-> g.comments[k].open, close |-> g.comments[k].close]]
  \o
  [k \in 1..Len(g.strings) |->
     [isComment |-> FALSE, open |-> g.strings[k].open, close |-> g.strings[k].close]]

NoFirst == [found |-> FALSE, index |-> NoMatch, length |-> 0, rule |-> 0]

\* A slip: a rule replaces `first` also when its match starts where the
\* match held so far starts.
RECURSIVE SelectFirstLastWins(_, _, _, _, _)
SelectFirstLastWins(rules, t, from, k, first) ==
  IF k > Len(rules) THEN first
  ELSE LET match == Exec(rules[k].open, t, from)
           next  == IF match.index # NoMatch /\ (~first.found \/ match.index <= first.index)
                    THEN [found |-> TRUE, index |-> match.index,
                          length |-> match.length, rule |-> k]
                    ELSE first
       IN  SelectFirstLastWins(rules, t, from, k + 1, next)

\* The for loop over the rules from rule k on: a rule replaces `first` only
\* when its match starts strictly before the match held so far. The match
\* held so far and the match of rule k are computed once per rule.
RECURSIVE SelectFirst(_, _, _, _, _)
SelectFirst(rules, t, from, k, first) ==
  IF k > Len(rules) THEN first
  ELSE CHOOSE selected \in
         { SelectFirst(rules, t, from, k + 1,
                       IF match.index # NoMatch /\ (~held.found \/ match.index < held.index)
                       THEN [found |-> TRUE, index |-> match.index,
                             length |-> match.length, rule |-> k]
                       ELSE held)
           : held \in {first}, match \in {Exec(rules[k].open, t, from)} } : TRUE

\* A slip: a span whose close pattern is not found ends after its open match.
SpanEndAfterOpen(rules, t, first) ==
  LET match == Exec(rules[first.rule].close, t, first.index + first.length)
  IN  IF match.index # NoMatch THEN match.index + match.length
      ELSE first.index + first.length

\* Where the span opened by `first` ends: past the close match, or at the end
\* of the text when the close pattern is not found.
SpanEnd(rules, t, first) ==
  LET match == Exec(rules[first.rule].close, t, first.index + first.length)
  IN  IF match.index # NoMatch THEN match.index + match.length ELSE Len(t)

\* A slip: the string span is pushed from the end of its open delimiter.
StringSliceAfterOpen(t, first, end) == Slice(t, first.index + first.length, end)

\* The slice a string span contributes to the output.
StringSlice(t, first, end) == Slice(t, first.index, end)

\* A slip: the remainder after the last rule match is not pushed.
RestSlicesDropped(t, li) == <<>>

\* The slices pushed when no rule matches in the remainder.
RestSlices(t, li) == <<Slice(t, li, Len(t))>>

\* A slip: the scan resumes at the open match of the span.
MatchedStepResumesAtOpen(t, li, first, end, isComment) ==
  [ slices |-> <<Slice(t, li, first.index)>>
               \o (IF isComment THEN <<>> ELSE <<Slice(t, first.index, end)>>),
    spans  |-> << <<"plain", li, first.index, 0>>,
                  <<(IF isComment THEN "comment" ELSE "string"), first.index, end,
                    first.rule>> >>,
    next   |-> first.index ]

\* A slip: the scan resumes after the open match of the span, not after
\* its end.
MatchedStepResumesAfterOpen(t, li, first, end, isComment) ==
  [ slices |-> <<Slice(t, li, first.index)>>
               \o (IF isComment THEN <<>> ELSE <<Slice(t, first.index, end)>>),
    spans  |-> << <<"plain", li, first.index, 0>>,
                  <<(IF isComment THEN "comment" ELSE "string"), first.index, end,
                    first.rule>> >>,
    next   |-> first.index + first.length ]

\* What an iteration pushes and scans when the rule first.rule matches
\* first and its span ends at `end`.
MatchedStep(t, li, first, end, isComment) ==
  [ slices |-> <<Slice(t, li, first.index)>>
               \o (IF isComment THEN <<>> ELSE <<StringSlice(t, first, end)>>),
    spans  |-> << <<"plain", li, first.index, 0>>,
                  <<(IF isComment THEN "comment" ELSE "string"), first.index, end,
                    first.rule>> >>,
    next   |-> end ]

\* What an iteration pushes and scans when no rule matches in the remainder.
UnmatchedStep(t, li) ==
  [ slices |-> RestSlices(t, li),
    spans  |-> << <<"plain", li, Len(t), 0>> >>,
    next   |-> Len(t) ]

\* The iteration once the first match of the rules is selected.
StepOfFirst(rules, t, li, first) ==
  IF first.found
  THEN MatchedStep(t, li, first, SpanEnd(rules, t, first), rules[first.rule].isComment)
  ELSE UnmatchedStep(t, li)

\* One iteration of the while loop at cursor li: the slices it pushes, the
\* spans it scans and the new cursor.
TokStep(g, t, li) ==
  CHOOSE step \in
    { StepOfFirst(CommentOrStringGrammers(g), t, li, first)
      : first \in {SelectFirst(CommentOrStringGrammers(g), t, li, 1, NoFirst)} } : TRUE

\* The while loop from cursor li, as the list of slices pushed.
RECURSIVE SlicesFrom(_, _, _)

\* The slices of an iteration, then those of the iterations after it.
SlicesAfter(g, t, step) == step.slices \o SlicesFrom(g, t, step.next)

SlicesFrom(g, t, li) ==
  IF li < Len(t) THEN SlicesAfter(g, t, TokStep(g, t, li)) ELSE <<>>

\* The function as a whole.
removeCommentsInSourceCode(g, t) ==
  IF Len(g.comments) = 0 THEN t ELSE Join(SlicesFrom(g, t, 0))

\* ---- the function as a state machine, one action per loop iteration ----

\* No preset is running.
PresetIdle ==
  /\ env = [preset |-> "none"]
  /\ pc = "idle"
  /\ testCases = <<>>
  /\ mainFilePath = ""
  /\ idx = 0
  /\ spawns = <<>>
  /\ results = <<>>
  /\ fault = ""

\* The static analyzer is not running.
SaIdle ==
  /\ saDirents = <<>>
  /\ saRules = [forbiddenRegExpsInCode |-> <<>>, forbiddenTextsInCode |-> <<>>,
                requiredRegExpsInCode |-> <<>>]
  /\ sourceCodeWithoutCommentFiles = <<>>
  /\ forbiddenFounds = <<>>
  /\ saIdx = 0
  /\ p = 0
  /\ saPc = "idle"
  /\ saResult = [decisionCode |-> "none", rows |-> <<>>, missing |-> <<>>]

\* The characters the texts under the C-like grammar are made of.
AlphabetC == {<<"/">>, <<"*">>, <<"\"">>, <<"\n">>, <<" ">>, <<"a">>, <<"\\">>}

\* The pieces the texts under the Python grammar are made of.
PiecesPy == {<<"'", "'", "'">>, <<"'">>, <<"#">>, <<"\n">>, <<"a">>}

\* The pieces the texts with whole comments under the C-like grammar are
\* made of.
PiecesC == {<<"/">>, <<"*">>, <<" ">>, <<"/", "*", "*", "/">>}

TokInputs ==
  ({cLikeGrammer} \X TextsUpTo(AlphabetC, MaxLenC))
  \cup ({cLikeGrammer} \X TextsUpTo(PiecesC, MaxPiecesC))
  \cup ({pythonGrammer} \X TextsUpTo(PiecesPy, MaxPiecesPy))
  \cup ({stringsOnlyGrammer, emptyGrammer} \X TextsUpTo(AlphabetC, MaxLenPlain))

TokInit ==
  /\ \E in \in TokInputs : grammer = in[1] /\ sourceCode = in[2]
  /\ lastIndex = 0
  /\ newSourceCodeSlices = <<>>
  /\ tokenSpans = <<>>
  /\ tpc = "start"
  /\ tokResult = <<>>
  /\ SaIdle
  /\ PresetIdle

\* if (!grammer.comments?.length) return sourceCode;
TokReturnSource ==
  /\ tpc = "start"
  /\ Len(grammer.comments) = 0
  /\ tokResult' = sourceCode
  /\ tokenSpans' = << <<"plain", 0, Len(sourceCode), 0>> >>
  /\ tpc' = "done"
  /\ UNCHANGED <<grammer, sourceCode, lastIndex, newSourceCodeSlices>>
  /\ UNCHANGED <<saVars, presetVars>>

\* the loop is entered
TokEnter ==
  /\ tpc = "start"
  /\ Len(grammer.comments) # 0
  /\ tpc' = "loop"
  /\ UNCHANGED <<grammer, sourceCode, lastIndex, newSourceCodeSlices, tokenSpans, tokResult>>
  /\ UNCHANGED <<saVars, presetVars>>

\* one iteration of the while loop
TokIterate ==
  /\ tpc = "loop"
  /\ lastIndex < Len(sourceCode)
  /\ \E step \in {TokStep(grammer, sourceCode, lastIndex)} :
       /\ newSourceCodeSlices' = newSourceCodeSlices \o step.slices
       /\ tokenSpans' = tokenSpans \o step.spans
       /\ lastIndex' = step.next
  /\ UNCHANGED <<grammer, sourceCode, tpc, tokResult>>
  /\ UNCHANGED <<saVars, presetVars>>

\* the loop condition fails: return newSourceCodeSlices.join('')
TokReturnJoined ==
  /\ tpc = "loop"
  /\ ~(lastIndex < Len(sourceCode))
  /\ tokResult' = Join(newSourceCodeSlices)
  /\ tpc' = "done"
  /\ UNCHANGED <<grammer, sourceCode, lastIndex, newSourceCodeSlices, tokenSpans>>
  /\ UNCHANGED <<saVars, presetVars>>

TokNext ==
  \/ TokReturnSource
  \/ TokEnter
  \/ TokIterate
  \/ TokReturnJoined

SpecTok == TokInit /\ [][TokNext]_vars

\* The function is run to its end: a step that can be taken is taken.
SpecTokFair == TokInit /\ [][TokNext]_vars /\ WF_vars(TokNext)

\* ------------------------------------------------------------------------
\* Properties of removeCommentsInSourceCode
\* ------------------------------------------------------------------------

SpanKind(sp)  == sp[1]
SpanStart(sp) == sp[2]
SpanEnd3(sp)  == sp[3]
\* The place in the list of the rules of the rule that opened the span, 0 for
\* plain text.
SpanRule(sp)  == sp[4]

\* The spans scanned so far lie end to end from offset 0.
SpansContiguous ==
  /\ tokenSpans # <<>> => SpanStart(tokenSpans[1]) = 0
  /\ \A k \in 1..Len(tokenSpans) : SpanStart(tokenSpans[k]) <= SpanEnd3(tokenSpans[k])
  /\ \A k \in 1..(Len(tokenSpans) - 1) : SpanEnd3(tokenSpans[k]) = SpanStart(tokenSpans[k + 1])

SpansCoverText ==
  IF tokenSpans = <<>> THEN Len(sourceCode) = 0
  ELSE SpanEnd3(tokenSpans[Len(tokenSpans)]) = Len(sourceCode)

\* The text of the spans that are not comments, in order.
RECURSIVE KeptText(_, _)
KeptText(spans, t) ==
  IF spans = <<>> THEN <<>>
  ELSE (IF SpanKind(Head(spans)) = "comment" THEN <<>>
        ELSE Slice(t, SpanStart(Head(spans)), SpanEnd3(Head(spans))))
       \o KeptText(Tail(spans), t)

\* A span from a to b is a comment of grammar g: some comment rule's open
\* pattern matches at a, and b is just past the first match of its close
\* pattern after the open (the end of the text if there is none).
IsCommentSpan(g, t, a, b) ==
  \E k \in 1..Len(g.comments) :
    LET len == MatchLenAt(g.comments[k].open, t, a)
    IN  /\ len # NoMatch
        /\ LET close == Exec(g.comments[k].close, t, a + len)
           IN  b = IF close.index = NoMatch THEN Len(t) ELSE close.index + close.length

\* C7: the returned text is the input with exactly its comment spans
\* deleted: the spans scanned cover the input end to end, every span dropped
\* is a comment of the grammar, and the output is the concatenation, in
\* order, of all the other spans (plain text and string literals) unchanged.
C7_OnlyCommentSpansDeleted ==
  tpc = "done" =>
    /\ SpansContiguous
    /\ SpansCoverText
    /\ \A k \in 1..Len(tokenSpans) :
         SpanKind(tokenSpans[k]) = "comment" =>
           IsCommentSpan(grammer, sourceCode, SpanStart(tokenSpans[k]), SpanEnd3(tokenSpans[k]))
    /\ tokResult = KeptText(tokenSpans, sourceCode)

\* A finished run that dropped a comment and kept a string literal.
C7_Witness ==
  /\ tpc = "done"
  /\ \E k \in 1..Len(tokenSpans) :
       SpanKind(tokenSpans[k]) = "comment" /\ SpanStart(tokenSpans[k]) < SpanEnd3(tokenSpans[k])
  /\ \E k \in 1..Len(tokenSpans) : SpanKind(tokenSpans[k]) = "string"
  /\ tokResult # sourceCode
  /\ tokResult # <<>>

\* Offset at which the delimiter of an open match at offset i starts (after
\* the optional newline and blanks of a comment rule's open pattern).
DelimiterStart(re, t, i) == i + MatchLenAt(re, t, i) - Len(re.lit)

\* No rule of the grammar has a delimiter before offset s.
FirstDelimiterAt(g, t, s) ==
  \A k \in 1..Len(CommentOrStringGrammers(g)), i \in 0..Len(t) :
    LET re == CommentOrStringGrammers(g)[k].open
    IN  MatchLenAt(re, t, i) # NoMatch => DelimiterStart(re, t, i) >= s

\* The string rule that reads a literal opening at offset s: the first
\* listed string rule whose open pattern matches there (0 if none).
StringRuleAt(g, t, s) ==
  LET hits == {k \in 1..Len(g.strings) : MatchLenAt(g.strings[k].open, t, s) # NoMatch}
  IN  IF hits = {} THEN 0 ELSE CHOOSE k \in hits : \A o \in hits : k <= o

\* The text has a closed string literal opening at offset s, in expression
\* position (it follows a character of its line that is no blank), before
\* any other delimiter of the text, and a comment rule's open pattern
\* matches inside its body.  The literal ends at StringLiteralEnd.
StringLiteralEnd(g, t, s) ==
  LET rule  == g.strings[StringRuleAt(g, t, s)]
      close == Exec(rule.close, t, s + Len(rule.open.lit))
  IN  IF close.index = NoMatch THEN NoMatch ELSE close.index + close.length

StringLiteralWithCommentOpenAt(g, t, s) ==
  /\ s > 0
  /\ Ch(t, s - 1) \notin {"\n", " ", "\t"}
  /\ StringRuleAt(g, t, s) # 0
  /\ FirstDelimiterAt(g, t, s)
  /\ StringLiteralEnd(g, t, s) # NoMatch
  /\ LET rule == g.strings[StringRuleAt(g, t, s)]
         from == s + Len(rule.open.lit)
         to   == StringLiteralEnd(g, t, s) - Len(rule.close.lit)
     IN  \E k \in 1..Len(g.comments), i \in from..to :
           LET len == MatchLenAt(g.comments[k].open, t, i)
           IN  len # NoMatch /\ i + len <= to

\* C8: whenever the input holds a string literal whose body contains a
\* comment-open sequence, the output still contains that literal verbatim.
C8_StringLiteralPreserved ==
  (tpc = "done" /\ Len(grammer.comments) # 0) =>
    \A s \in 0..Len(sourceCode) :
      StringLiteralWithCommentOpenAt(grammer, sourceCode, s) =>
        Contains(tokResult, Slice(sourceCode, s, StringLiteralEnd(grammer, sourceCode, s)))

\* No comment rule's open pattern matches anywhere in the text.
NoCommentOpen(g, t) ==
  \A k \in 1..Len(g.comments), i \in 0..Len(t) : MatchLenAt(g.comments[k].open, t, i) = NoMatch

\* C9: on a text in which no comment rule's open pattern matches anywhere
\* (in particular under a grammar without rules) the output equals the input.
C9_IdentityWithoutComments ==
  (tpc = "done" /\ NoCommentOpen(grammer, sourceCode)) => tokResult = sourceCode

\* A finished scan, under a grammar with comment rules, of a text without
\* comment opens that ends in plain text after a string literal.
C9_Witness ==
  /\ tpc = "done"
  /\ Len(grammer.comments) # 0
  /\ NoCommentOpen(grammer, sourceCode)
  /\ Len(tokenSpans) >= 3
  /\ SpanKind(tokenSpans[2]) = "string"
  /\ SpanKind(tokenSpans[Len(tokenSpans)]) = "plain"
  /\ SpanStart(tokenSpans[Len(tokenSpans)]) < Len(sourceCode)

\* Where the first match of the pattern at or after the cursor starts.
StartFrom(re, cursor) == Exec(re, sourceCode, cursor).index

\* The rule that opened the k-th span, and the cursor of the iteration that
\* scanned it: the start of the plain span before it.
RuleOfSpan(k) ==
  IF SpanKind(tokenSpans[k]) = "comment" THEN grammer.comments[SpanRule(tokenSpans[k])]
  ELSE grammer.strings[SpanRule(tokenSpans[k]) - Len(grammer.comments)]

CursorOfSpan(k) == SpanStart(tokenSpans[k - 1])

\* The rules of the kind of the k-th span listed before the one that
\* opened it.
ListedBefore(k) ==
  IF SpanKind(tokenSpans[k]) = "comment"
  THEN {grammer.comments[j] : j \in 1..(SpanRule(tokenSpans[k]) - 1)}
  ELSE {grammer.strings[j] : j \in 1..(SpanRule(tokenSpans[k]) - Len(grammer.comments) - 1)}

AllRules ==
  {grammer.comments[j] : j \in 1..Len(grammer.comments)}
  \cup {grammer.strings[j] : j \in 1..Len(grammer.strings)}

\* C24: the rule selected at a step is one whose open pattern has the
\* smallest match start at or after the cursor; of the rules that match at
\* that start the earliest listed is selected, every comment rule being
\* listed before every string rule, so that a string rule is selected only
\* when no comment rule matches at the same start.
C24_SmallestStartEarliestRule ==
  \A k \in 1..Len(tokenSpans) :
    SpanKind(tokenSpans[k]) # "plain" =>
      /\ k > 1
      /\ SpanKind(tokenSpans[k - 1]) = "plain"
      /\ StartFrom(RuleOfSpan(k).open, CursorOfSpan(k)) = SpanStart(tokenSpans[k])
      /\ \A rule \in AllRules :
           StartFrom(rule.open, CursorOfSpan(k)) # NoMatch =>
             StartFrom(rule.open, CursorOfSpan(k)) >= SpanStart(tokenSpans[k])
      /\ \A rule \in ListedBefore(k) :
           StartFrom(rule.open, CursorOfSpan(k)) # SpanStart(tokenSpans[k])
      /\ SpanKind(tokenSpans[k]) = "string" =>
           \A j \in 1..Len(grammer.comments) :
             StartFrom(grammer.comments[j].open, CursorOfSpan(k)) # SpanStart(tokenSpans[k])

\* A comment rule is selected at a start where a string rule matches too,
\* after a step that selected the later-listed of two comment rules because
\* its match starts first.
C24_Witness ==
  /\ \E k \in 2..Len(tokenSpans) :
       /\ SpanKind(tokenSpans[k]) = "comment"
       /\ \E j \in 1..Len(grammer.strings) :
            StartFrom(grammer.strings[j].open, CursorOfSpan(k)) = SpanStart(tokenSpans[k])
  /\ \E k \in 2..Len(tokenSpans) :
       /\ SpanRule(tokenSpans[k]) > 1
       /\ \E rule \in ListedBefore(k) :
            StartFrom(rule.open, CursorOfSpan(k)) > SpanStart(tokenSpans[k])

\* The close pattern of the rule that opened the k-th span is not found
\* after its open match.
Unterminated(k) ==
  /\ SpanKind(tokenSpans[k]) # "plain"
  /\ Exec(RuleOfSpan(k).close, sourceCode,
          SpanStart(tokenSpans[k])
            + Exec(RuleOfSpan(k).open, sourceCode, CursorOfSpan(k)).length).index = NoMatch

\* C25: a comment whose close pattern (the next newline for a rule without
\* close) is not found after its open takes everything from its open to the
\* end of the text, and none of it is in the output; a string whose close
\* pattern is not found takes everything from its open to the end of the
\* text, all of it is in the output unchanged, and no span is scanned after
\* it: no rule is matched inside it.
C25_UnterminatedSpans ==
  \A k \in 1..Len(tokenSpans) :
    Unterminated(k) =>
      /\ SpanEnd3(tokenSpans[k]) = Len(sourceCode)
      /\ k = Len(tokenSpans)
      /\ lastIndex = Len(sourceCode)
      /\ tpc = "done" =>
           tokResult = KeptText(SubSeq(tokenSpans, 1, k - 1), sourceCode)
                       \o (IF SpanKind(tokenSpans[k]) = "string"
                           THEN Slice(sourceCode, SpanStart(tokenSpans[k]), Len(sourceCode))
                           ELSE <<>>)

\* A finished scan whose last span is a string without close in which a
\* comment rule's open pattern matches.
C25_Witness ==
  /\ tpc = "done"
  /\ Len(tokenSpans) >= 2
  /\ Unterminated(Len(tokenSpans))
  /\ SpanKind(tokenSpans[Len(tokenSpans)]) = "string"
  /\ \E j \in 1..Len(grammer.comments) :
       StartFrom(grammer.comments[j].open, SpanStart(tokenSpans[Len(tokenSpans)]) + 1) # NoMatch
  /\ tokResult = sourceCode

\* The cursor is where the last span scanned ends.
CursorAtEndOfSpans ==
  tpc = "loop" =>
    lastIndex = (IF tokenSpans = <<>> THEN 0 ELSE SpanEnd3(tokenSpans[Len(tokenSpans)]))

\* C26: the cursor never moves backwards; the spans scanned (plain text,
\* comment, string) lie end to end from offset 0 without overlap, the
\* cursor at the end of the last, and at the return they reach the end of
\* the input, so that every offset is in exactly one span; the output is
\* never longer than the input.
C26_CursorAndSpans ==
  /\ [][lastIndex' >= lastIndex]_vars
  /\ [](SpansContiguous /\ CursorAtEndOfSpans /\ lastIndex <= Len(sourceCode))
  /\ [](tpc = "done" => SpansCoverText /\ Len(tokResult) <= Len(sourceCode))

\* A finished scan of two iterations or more that dropped a comment: the
\* output is shorter than the input.
C26_Witness ==
  /\ tpc = "done"
  /\ Len(tokenSpans) >= 4
  /\ lastIndex = Len(sourceCode)
  /\ Len(tokResult) < Len(sourceCode)
  /\ Len(tokResult) > 0

IsPlainSpan(sp) == SpanKind(sp) = "plain"

\* The iterations of the while loop so far: each scans one span of plain
\* text.
Iterations ==
  IF Len(grammer.comments) = 0 THEN 0 ELSE Len(SelectSeq(tokenSpans, IsPlainSpan))

\* C31: the function returns on every text under every grammar; each
\* iteration of its loop leaves the cursor further than it found it, and
\* the iterations are never more than the characters of the text.
C31_Terminates ==
  /\ <>(tpc = "done")
  /\ [][(tpc = "loop" /\ tpc' = "loop") => lastIndex' > lastIndex]_vars
  /\ [](Iterations <= Len(sourceCode))

\* A scan that has returned after three iterations or more.
C31_Witness ==
  /\ tpc = "done"
  /\ Iterations >= 3
  /\ lastIndex = Len(sourceCode)

\* C33: stripping is idempotent: the returned text, stripped again under
\* the same grammar, is returned as it is.
C33_Idempotent ==
  (tpc = "done") => removeCommentsInSourceCode(grammer, tokResult) = tokResult

\* ------------------------------------------------------------------------
\* The language catalog (the entries the model uses, in catalog order)
\* ------------------------------------------------------------------------

languageIdToDefinition ==
  << [id |-> "c", fileExtensions |-> {".c"}, prebuild |-> FALSE, buildCommand |-> TRUE,
      hasGrammer |-> TRUE, grammer |-> cLikeGrammer],
     [id |-> "java", fileExtensions |-> {".java"}, prebuild |-> TRUE, buildCommand |-> TRUE,
      hasGrammer |-> TRUE, grammer |-> cLikeGrammer],
     [id |-> "python", fileExtensions |-> {".py"}, prebuild |-> FALSE, buildCommand |-> FALSE,
      hasGrammer |-> TRUE, grammer |-> pythonGrammer],
     [id |-> "text", fileExtensions |-> {".txt"}, prebuild |-> FALSE, buildCommand |-> FALSE,
      hasGrammer |-> FALSE, grammer |-> emptyGrammer] >>

\* Index in the catalog of the first definition one of whose extensions the
\* path ends with; 0 when there is none.  A path is given by its extension,
\* the suffix from its last dot.
findLanguageDefinitionByPath(ext) ==
  LET hits == {k \in 1..Len(languageIdToDefinition) :
                 ext \in languageIdToDefinition[k].fileExtensions}
  IN  IF hits = {} THEN 0 ELSE CHOOSE k \in hits : \A o \in hits : k <= o

\* ------------------------------------------------------------------------
\* judgeByStaticAnalysis
\* ------------------------------------------------------------------------

\* The character a decoder puts where the bytes are no valid UTF-8.
ReplacementChar == "U+FFFD"

isBinary(text) == \E k \in 1..Len(text) : text[k] = ReplacementChar

\* The text a source file is scanned as.
ScannedData(dirent) ==
  LET def == languageIdToDefinition[findLanguageDefinitionByPath(dirent.ext)]
  IN  IF def.hasGrammer THEN removeCommentsInSourceCode(def.grammer, dirent.text)
      ELSE dirent.text

\* One iteration of the loop over the directory entries: what it pushes.
ReadDirent(dirent) ==
  IF ~dirent.isFile THEN <<>>
  ELSE IF isBinary(dirent.text) THEN <<>>
  ELSE IF findLanguageDefinitionByPath(dirent.ext) = 0 THEN <<>>
  ELSE << [path |-> dirent.name, data |-> ScannedData(dirent)] >>

\* String.prototype.matchAll of a global pattern: the matches from offset
\* `from` on, each search resuming at the end of the match before it.
RECURSIVE MatchAll(_, _, _)
MatchAll(re, data, from) ==
  IF from > Len(data) THEN <<>>
  ELSE LET match == Exec(re, data, from)
       IN  IF match.index = NoMatch THEN <<>>
           ELSE <<match>> \o MatchAll(re, data,
                  IF match.length = 0 THEN match.index + 1 ELSE match.index + match.length)

\* String.prototype.indexOf(pattern, p)
IndexOf(data, pattern, position) == Exec(Lit(pattern), data, position).index

\* A slip: the scan resumes one character after the start of an occurrence.
ResumeAfterStart(index, pattern) == index + 1

\* Where the scan resumes after an occurrence found at index.
ResumeAfter(index, pattern) == index + Len(pattern)

\* A slip: every offset at which the text occurs is found, the occurrences
\* that overlap an earlier one included.
RECURSIVE TextOccurrencesOverlapping(_, _, _)
TextOccurrencesOverlapping(data, pattern, position) ==
  IF position < Len(data) /\ IndexOf(data, pattern, position) # NoMatch
  THEN <<IndexOf(data, pattern, position)>>
       \o TextOccurrencesOverlapping(data, pattern, IndexOf(data, pattern, position) + 1)
  ELSE <<>>

\* The while loop of a forbidden text from the position p of the code: the
\* indexes found.
RECURSIVE TextOccurrences(_, _, _)
TextOccurrences(data, pattern, position) ==
  IF position < Len(data)
  THEN LET index == IndexOf(data, pattern, position)
       IN  IF index = NoMatch THEN <<>>
           ELSE <<index>> \o TextOccurrences(data, pattern, ResumeAfter(index, pattern))
  ELSE <<>>

RegExpRows(file, fileIdx, patterns, k) ==
  LET matches == MatchAll(patterns[k], file.data, 0)
  IN  [m \in 1..Len(matches) |->
         [pattern |-> [kind |-> "regexp", rule |-> k, re |-> patterns[k]],
          path |-> file.path, file |-> fileIdx,
          match |-> Slice(file.data, matches[m].index, matches[m].index + matches[m].length)]]

TextRows(file, fileIdx, patterns, k) ==
  LET found == TextOccurrences(file.data, patterns[k], 0)
  IN  [m \in 1..Len(found) |->
         [pattern |-> [kind |-> "text", rule |-> k, re |-> Lit(patterns[k])],
          path |-> file.path, file |-> fileIdx,
          match |-> patterns[k]]]

RECURSIVE RowsOfRules(_, _, _, _, _)
RowsOfRules(Rows(_, _, _, _), file, fileIdx, patterns, k) ==
  IF k > Len(patterns) THEN <<>>
  ELSE Rows(file, fileIdx, patterns, k) \o RowsOfRules(Rows, file, fileIdx, patterns, k + 1)

\* One iteration of the loop over the files: the rows it pushes, those of
\* the regular-expression rules, then those of the text rules.
ForbiddenRowsOfFile(file, fileIdx, rules) ==
  RowsOfRules(RegExpRows, file, fileIdx, rules.forbiddenRegExpsInCode, 1)
  \o RowsOfRules(TextRows, file, fileIdx, rules.forbiddenTextsInCode, 1)

\* A slip: every file has to match.
isFoundInEvery(re, files) ==
  \A f \in 1..Len(files) : Exec(re, files[f].data, 0).index # NoMatch

\* re.test(f.data) for some file f
isFound(re, files) ==
  \E f \in 1..Len(files) : Exec(re, files[f].data, 0).index # NoMatch

RECURSIVE missingRequiredPatterns(_, _, _)
missingRequiredPatterns(files, patterns, k) ==
  IF k > Len(patterns) THEN <<>>
  ELSE (IF isFound(patterns[k], files) THEN <<>> ELSE <<patterns[k]>>)
       \o missingRequiredPatterns(files, patterns, k + 1)

NoVerdict == [decisionCode |-> "none", rows |-> <<>>, missing |-> <<>>]

\* The verdict once the forbidden rows are collected.
StaticVerdict(files, founds, rules) ==
  IF Len(founds) > 0
  THEN [decisionCode |-> "FORBIDDEN_PATTERNS_IN_CODE_ERROR", rows |-> founds, missing |-> <<>>]
  ELSE LET missing == missingRequiredPatterns(files, rules.requiredRegExpsInCode, 1)
       IN  IF Len(missing) > 0
           THEN [decisionCode |-> "REQUIRED_PATTERNS_IN_CODE_ERROR", rows |-> <<>>,
                 missing |-> missing]
           ELSE NoVerdict

\* ---- the function as a state machine ----

\* The entries of the model's submission directories, by kind.
DirentName(kind) ==
  CASE kind = "py"  -> [name |-> "main.py", ext |-> ".py", isFile |-> TRUE]
    [] kind = "c"   -> [name |-> "main.c", ext |-> ".c", isFile |-> TRUE]
    [] kind = "java" -> [name |-> "main.java", ext |-> ".java", isFile |-> TRUE]
    [] kind = "txt" -> [name |-> "note.txt", ext |-> ".txt", isFile |-> TRUE]
    [] kind = "dat" -> [name |-> "data.dat", ext |-> ".dat", isFile |-> TRUE]
    [] kind = "dir" -> [name |-> "sub", ext |-> "", isFile |-> FALSE]

Dirent(kind, text) ==
  [name |-> DirentName(kind).name, ext |-> DirentName(kind).ext,
   isFile |-> DirentName(kind).isFile, text |-> text]

\* The contents of the source files of the model's submissions.
SaTexts ==
  { <<>>, <<"a", "a", "a">>, <<"#", "a">>, <<"a", "b">>, <<"b", "#", "a", "a">> }

SaDirentChoices ==
  {Dirent(k, t) : k \in {"py", "txt"}, t \in SaTexts}
  \cup {Dirent("dat", <<"a", "a">>), Dirent("dir", <<>>),
        Dirent("py", <<"a", "a", ReplacementChar>>)}

RECURSIVE ListsUpTo(_, _)
ListsUpTo(S, n) ==
  IF n = 0 THEN {<<>>}
  ELSE LET shorter == ListsUpTo(S, n - 1)
       IN  shorter \cup {Append(l, x) : l \in {m \in shorter : Len(m) = n - 1}, x \in S}

SaRuleChoices ==
  [ forbiddenRegExpsInCode : {<<>>, <<OneOrMore("a")>>},
    forbiddenTextsInCode   : {<<>>, <<<<"a", "a">>>>, <<<<"b">>, <<"a">>>>},
    requiredRegExpsInCode  : {<<>>, <<Lit(<<"b">>)>>, <<Lit(<<"a">>), Lit(<<"b">>)>>} ]

TokIdle ==
  /\ grammer = emptyGrammer
  /\ sourceCode = <<>>
  /\ lastIndex = 0
  /\ newSourceCodeSlices = <<>>
  /\ tokenSpans = <<>>
  /\ tpc = "idle"
  /\ tokResult = <<>>

SaInit ==
  /\ TokIdle
  /\ PresetIdle
  /\ saDirents \in ListsUpTo(SaDirentChoices, MaxDirents)
  /\ saRules \in SaRuleChoices
  /\ sourceCodeWithoutCommentFiles = <<>>
  /\ forbiddenFounds = <<>>
  /\ saIdx = 1
  /\ p = 0
  /\ saPc = "readdir"
  /\ saResult = NoVerdict

\* one iteration of the loop over the directory entries
SaReadDirent ==
  /\ saPc = "readdir"
  /\ saIdx <= Len(saDirents)
  /\ sourceCodeWithoutCommentFiles' =
       sourceCodeWithoutCommentFiles \o ReadDirent(saDirents[saIdx])
  /\ saIdx' = saIdx + 1
  /\ UNCHANGED <<saDirents, saRules, forbiddenFounds, p, saPc, saResult>>
  /\ UNCHANGED <<tokVars, presetVars>>

\* the listing is exhausted: the loop over the files starts
SaStartScan ==
  /\ saPc = "readdir"
  /\ saIdx > Len(saDirents)
  /\ saIdx' = 1
  /\ saPc' = "forbidden"
  /\ UNCHANGED <<saDirents, saRules, sourceCodeWithoutCommentFiles, forbiddenFounds, p, saResult>>
  /\ UNCHANGED <<tokVars, presetVars>>

\* one iteration of the loop over the files
SaScanFile ==
  /\ saPc = "forbidden"
  /\ saIdx <= Len(sourceCodeWithoutCommentFiles)
  /\ forbiddenFounds' =
       forbiddenFounds \o ForbiddenRowsOfFile(sourceCodeWithoutCommentFiles[saIdx], saIdx, saRules)
  /\ saIdx' = saIdx + 1
  /\ UNCHANGED <<saDirents, saRules, sourceCodeWithoutCommentFiles, p, saPc, saResult>>
  /\ UNCHANGED <<tokVars, presetVars>>

\* the files are exhausted: the verdict is decided and returned
SaReturn ==
  /\ saPc = "forbidden"
  /\ saIdx > Len(sourceCodeWithoutCommentFiles)
  /\ saResult' = StaticVerdict(sourceCodeWithoutCommentFiles, forbiddenFounds, saRules)
  /\ saPc' = "done"
  /\ UNCHANGED <<saDirents, saRules, sourceCodeWithoutCommentFiles, forbiddenFounds, saIdx, p>>
  /\ UNCHANGED <<tokVars, presetVars>>

SaNext ==
  \/ SaReadDirent
  \/ SaStartScan
  \/ SaScanFile
  \/ SaReturn

SpecSA == SaInit /\ [][SaNext]_vars

\* ---- the scan of one forbidden text over one file, one action per ----
\* ---- iteration of its while loop                                  ----

\* The rows after which the scan is followed no further: one more than a
\* scan that advances can push.
MaxFounds == MaxLenData + 1

ScanTexts == TextsUpTo({<<"a">>, <<"b">>}, MaxLenData)

\* The forbidden texts of the scans: the empty text is a string like any
\* other to the loop.
ScanPatterns == {<<>>, <<"a">>, <<"b">>, <<"a", "a">>, <<"a", "b">>}

\* The file and the forbidden text the loop is at.
ScanFile == sourceCodeWithoutCommentFiles[saIdx]

ScanPattern == saRules.forbiddenTextsInCode[1]

\* The row the loop pushes for an occurrence.
ScanRow ==
  [pattern |-> [kind |-> "text", rule |-> 1, re |-> Lit(ScanPattern)],
   path |-> ScanFile.path, file |-> saIdx, match |-> ScanPattern]

\* let p = 0, for the one forbidden text of the rules and the one file
TextScanInit ==
  /\ TokIdle
  /\ PresetIdle
  /\ saDirents = <<>>
  /\ \E pattern \in ScanPatterns :
       saRules = [forbiddenRegExpsInCode |-> <<>>, forbiddenTextsInCode |-> <<pattern>>,
                  requiredRegExpsInCode |-> <<>>]
  /\ \E data \in ScanTexts :
       sourceCodeWithoutCommentFiles = << [path |-> "main.py", data |-> data] >>
  /\ forbiddenFounds = <<>>
  /\ saIdx = 1
  /\ p = 0
  /\ saPc = "text"
  /\ saResult = NoVerdict

\* an iteration that finds the text: the row is pushed and p is moved
TextScanPush ==
  /\ saPc = "text"
  /\ p < Len(ScanFile.data)
  /\ IndexOf(ScanFile.data, ScanPattern, p) # NoMatch
  /\ Len(forbiddenFounds) < MaxFounds
  /\ forbiddenFounds' = Append(forbiddenFounds, ScanRow)
  /\ p' = ResumeAfter(IndexOf(ScanFile.data, ScanPattern, p), ScanPattern)
  /\ UNCHANGED <<saDirents, saRules, sourceCodeWithoutCommentFiles, saIdx, saPc, saResult>>
  /\ UNCHANGED <<tokVars, presetVars>>

\* if (index === -1) break;
TextScanBreak ==
  /\ saPc = "text"
  /\ p < Len(ScanFile.data)
  /\ IndexOf(ScanFile.data, ScanPattern, p) = NoMatch
  /\ saPc' = "done"
  /\ UNCHANGED <<saDirents, saRules, sourceCodeWithoutCommentFiles, forbiddenFounds, saIdx, p,
                 saResult>>
  /\ UNCHANGED <<tokVars, presetVars>>

\* the loop condition p < file.data.length fails
TextScanExit ==
  /\ saPc = "text"
  /\ ~(p < Len(ScanFile.data))
  /\ saPc' = "done"
  /\ UNCHANGED <<saDirents, saRules, sourceCodeWithoutCommentFiles, forbiddenFounds, saIdx, p,
                 saResult>>
  /\ UNCHANGED <<tokVars, presetVars>>

TextScanNext ==
  \/ TextScanPush
  \/ TextScanBreak
  \/ TextScanExit

SpecTextScan == TextScanInit /\ [][TextScanNext]_vars

\* ------------------------------------------------------------------------
\* Properties of judgeByStaticAnalysis
\* ------------------------------------------------------------------------

\* The entries of the listing the analyzer scans, in listing order.
IsScanned(d) ==
  d.isFile /\ ~isBinary(d.text) /\ findLanguageDefinitionByPath(d.ext) # 0

ScannedDirents == SelectSeq(saDirents, IsScanned)

\* The comment-stripped text of a scanned entry.
StrippedText(d) ==
  LET def == languageIdToDefinition[findLanguageDefinitionByPath(d.ext)]
  IN  IF def.hasGrammer THEN removeCommentsInSourceCode(def.grammer, d.text) ELSE d.text

\* The offsets at which the pattern matches.
MatchStarts(re, data) == {i \in 0..Len(data) : MatchLenAt(re, data, i) # NoMatch}

\* The matches a left-to-right scan reports: a match start is reported
\* exactly when no reported match before it reaches over it.
ReportedStarts(re, data) ==
  CHOOSE S \in SUBSET MatchStarts(re, data) :
    \A i \in MatchStarts(re, data) :
      (i \in S) <=> ~(\E j \in S : j < i /\ i < j + MatchLenAt(re, data, j))

ForbiddenOccurrenceExists ==
  \E f \in 1..Len(ScannedDirents) :
    \/ \E k \in 1..Len(saRules.forbiddenRegExpsInCode) :
         MatchStarts(saRules.forbiddenRegExpsInCode[k], StrippedText(ScannedDirents[f])) # {}
    \/ \E k \in 1..Len(saRules.forbiddenTextsInCode) :
         Contains(StrippedText(ScannedDirents[f]), saRules.forbiddenTextsInCode[k])

RowsOf(f, kind, k) ==
  {m \in 1..Len(saResult.rows) :
     /\ saResult.rows[m].file = f
     /\ saResult.rows[m].pattern.kind = kind
     /\ saResult.rows[m].pattern.rule = k}

\* C5: when a forbidden occurrence exists in a scanned file the verdict is
\* FORBIDDEN_PATTERNS with one row per occurrence (each match of each
\* regular-expression rule, each occurrence of each text rule, repeats in
\* one file included), the rows in file order and, within a file, those of
\* the regular-expression rules before those of the text rules; the
\* required rules play no part (no REQUIRED_PATTERNS verdict, nothing
\* reported missing).
C5_ForbiddenRows ==
  (saPc = "done" /\ ForbiddenOccurrenceExists) =>
    /\ saResult.decisionCode = "FORBIDDEN_PATTERNS_IN_CODE_ERROR"
    /\ saResult.missing = <<>>
    /\ \A f \in 1..Len(ScannedDirents) :
         LET data == StrippedText(ScannedDirents[f])
         IN  /\ \A k \in 1..Len(saRules.forbiddenRegExpsInCode) :
                  Cardinality(RowsOf(f, "regexp", k))
                    = Cardinality(ReportedStarts(saRules.forbiddenRegExpsInCode[k], data))
             /\ \A k \in 1..Len(saRules.forbiddenTextsInCode) :
                  Cardinality(RowsOf(f, "text", k))
                    = Cardinality(ReportedStarts(Lit(saRules.forbiddenTextsInCode[k]), data))
    /\ \A m \in 1..Len(saResult.rows) :
         LET row == saResult.rows[m]
         IN  /\ row.file \in 1..Len(ScannedDirents)
             /\ row.path = ScannedDirents[row.file].name
             /\ MatchLenAt(row.pattern.re, row.match, 0) = Len(row.match)
             /\ Contains(StrippedText(ScannedDirents[row.file]), row.match)
             /\ row.pattern.kind = "text" =>
                  row.match = saRules.forbiddenTextsInCode[row.pattern.rule]
    /\ \A m, n \in 1..Len(saResult.rows) :
         m < n =>
           /\ saResult.rows[m].file <= saResult.rows[n].file
           /\ saResult.rows[m].file = saResult.rows[n].file =>
                ~(saResult.rows[m].pattern.kind = "text" /\ saResult.rows[n].pattern.kind = "regexp")

\* A returned verdict whose table holds, for one file, a row of a
\* regular-expression rule and a repeated row of a text rule, for a
\* submission in which a required rule is unsatisfied.
C5_Witness ==
  /\ saPc = "done"
  /\ ForbiddenOccurrenceExists
  /\ \E f \in 1..Len(ScannedDirents) :
       /\ \E k \in 1..Len(saRules.forbiddenRegExpsInCode) : RowsOf(f, "regexp", k) # {}
       /\ \E k \in 1..Len(saRules.forbiddenTextsInCode) : Cardinality(RowsOf(f, "text", k)) >= 2
  /\ \E k \in 1..Len(saRules.requiredRegExpsInCode) :
       \A f \in 1..Len(ScannedDirents) :
         MatchStarts(saRules.requiredRegExpsInCode[k], StrippedText(ScannedDirents[f])) = {}

\* The number of occurrences of the literal a scan from offset `from` finds
\* that goes from left to right and resumes just after the end of each
\* occurrence found.
RECURSIVE NonOverlappingCount(_, _, _)
NonOverlappingCount(data, literal, from) ==
  IF \E i \in from..Len(data) : LitAt(data, literal, i)
  THEN 1 + NonOverlappingCount(data, literal,
             (CHOOSE i \in from..Len(data) :
                /\ LitAt(data, literal, i)
                /\ \A j \in from..(i - 1) : ~LitAt(data, literal, j)) + Len(literal))
  ELSE 0

\* C27: for a forbidden literal rule, the rows reported for a file are as
\* many as the non-overlapping occurrences of the literal a left-to-right
\* scan of the file's comment-stripped text finds when it resumes just
\* after the end of each occurrence: the literal aa is reported once in aaa.
C27_LiteralRowsNonOverlapping ==
  saPc = "done" =>
    \A f \in 1..Len(ScannedDirents), k \in 1..Len(saRules.forbiddenTextsInCode) :
      /\ Cardinality(RowsOf(f, "text", k))
           = NonOverlappingCount(StrippedText(ScannedDirents[f]),
                                 saRules.forbiddenTextsInCode[k], 0)
      /\ (StrippedText(ScannedDirents[f]) = <<"a", "a", "a">>
          /\ saRules.forbiddenTextsInCode[k] = <<"a", "a">>) =>
           Cardinality(RowsOf(f, "text", k)) = 1

\* The literal aa is reported once for a file whose text is aaa, although
\* it occurs at two offsets of it.
C27_Witness ==
  /\ saPc = "done"
  /\ \E f \in 1..Len(ScannedDirents), k \in 1..Len(saRules.forbiddenTextsInCode) :
       /\ StrippedText(ScannedDirents[f]) = <<"a", "a", "a">>
       /\ saRules.forbiddenTextsInCode[k] = <<"a", "a">>
       /\ LitAt(StrippedText(ScannedDirents[f]), saRules.forbiddenTextsInCode[k], 0)
       /\ LitAt(StrippedText(ScannedDirents[f]), saRules.forbiddenTextsInCode[k], 1)
       /\ Cardinality(RowsOf(f, "text", k)) = 1

\* A required rule no scanned file's comment-stripped text matches.
Unsatisfied(re) ==
  \A f \in 1..Len(ScannedDirents) : MatchStarts(re, StrippedText(ScannedDirents[f])) = {}

\* C6: without a forbidden occurrence, the verdict is REQUIRED_PATTERNS
\* listing, in rule order, exactly the required rules that no scanned
\* file's comment-stripped text matches, and there is no verdict exactly
\* when every required rule is matched by some scanned file.
C6_RequiredRules ==
  (saPc = "done" /\ ~ForbiddenOccurrenceExists) =>
    LET unsatisfied == SelectSeq(saRules.requiredRegExpsInCode, Unsatisfied)
    IN  /\ unsatisfied # <<>> =>
             saResult = [decisionCode |-> "REQUIRED_PATTERNS_IN_CODE_ERROR", rows |-> <<>>,
                         missing |-> unsatisfied]
        /\ unsatisfied = <<>> => saResult = NoVerdict
        /\ saResult = NoVerdict <=>
             \A k \in 1..Len(saRules.requiredRegExpsInCode) :
               ~Unsatisfied(saRules.requiredRegExpsInCode[k])

\* A returned REQUIRED_PATTERNS verdict that lists one of two required
\* rules, the other being matched by the second of two scanned files only,
\* where a comment was stripped from a scanned file.
C6_Witness ==
  /\ saPc = "done"
  /\ ~ForbiddenOccurrenceExists
  /\ saResult.decisionCode = "REQUIRED_PATTERNS_IN_CODE_ERROR"
  /\ Len(saRules.requiredRegExpsInCode) = 2
  /\ Len(saResult.missing) = 1
  /\ Len(ScannedDirents) = 2
  /\ \E k \in 1..2 :
       /\ MatchStarts(saRules.requiredRegExpsInCode[k], StrippedText(ScannedDirents[1])) = {}
       /\ MatchStarts(saRules.requiredRegExpsInCode[k], StrippedText(ScannedDirents[2])) # {}
  /\ \E f \in 1..2 : StrippedText(ScannedDirents[f]) # ScannedDirents[f].text

\* The text a regular file that is not binary is to be scanned as: its
\* comment-stripped text when its extension has a catalog entry with a
\* grammar, its raw text otherwise.
TextToScan(d) ==
  LET k == findLanguageDefinitionByPath(d.ext)
  IN  IF k # 0 /\ languageIdToDefinition[k].hasGrammer
      THEN removeCommentsInSourceCode(languageIdToDefinition[k].grammer, d.text)
      ELSE d.text

\* C16: every regular file of the submission that is not binary is
\* scanned, a file without a catalog entry (or whose entry has no grammar)
\* as raw text: a forbidden text in what such a file is scanned as makes
\* the verdict FORBIDDEN_PATTERNS, with a row for that file.
C16_EveryTextFileScanned ==
  saPc = "done" =>
    \A n \in 1..Len(saDirents) :
      LET d == saDirents[n]
      IN  (d.isFile /\ ~isBinary(d.text)) =>
            \A k \in 1..Len(saRules.forbiddenTextsInCode) :
              Contains(TextToScan(d), saRules.forbiddenTextsInCode[k]) =>
                /\ saResult.decisionCode = "FORBIDDEN_PATTERNS_IN_CODE_ERROR"
                /\ \E m \in 1..Len(saResult.rows) :
                     /\ saResult.rows[m].path = d.name
                     /\ saResult.rows[m].match = saRules.forbiddenTextsInCode[k]

\* C32: the scan of a forbidden text comes to its end for every text, the
\* empty text included: after each row pushed the position p is further
\* than before, so that the rows of a scan are never more than the
\* characters of the file.
C32_TextScanAdvances ==
  /\ [][Len(forbiddenFounds') > Len(forbiddenFounds) => p' > p]_vars
  /\ [](Len(forbiddenFounds) <= Len(ScanFile.data))

\* ------------------------------------------------------------------------
\* presets/stdio: what stdioJudgePreset and stdioDebugPreset work with
\* ------------------------------------------------------------------------

BUILD_TIMEOUT_SECONDS == 10
JUDGE_DEFAULT_TIMEOUT_SECONDS == 2
DEBUG_DEFAULT_TIMEOUT_SECONDS == 10
MAX_STDOUT_LENGTH == 50000

\* The largest number of test cases of a fixture directory.
MaxTests == 3

\* An absent number (undefined or null).
Undefined == -1

\* An absent text.  A text is a sequence of one-character pieces, so that
\* no text equals this one.
UndefinedText == <<"undefined">>

Max(a, b) == IF a >= b THEN a ELSE b
Min(a, b) == IF a <= b THEN a ELSE b

\* The output of a process: a text followed by a run of blanks, which lets
\* an output be longer than the cap without the model holding each character.
Output(text, blanks) == [text |-> text, blanks |-> blanks]

NoOutput == Output(<<>>, 0)

\* out.length
Length(out) == Len(out.text) + out.blanks

\* A slip: the output is put in the result as it is.
SliceOrUndefinedUncut(out) == out

\* out.slice(0, MAX_STDOUT_LENGTH) || undefined.  An empty output and an
\* absent one are both NoOutput.
SliceOrUndefined(out) ==
  IF Len(out.text) >= MAX_STDOUT_LENGTH
  THEN Output(Slice(out.text, 0, MAX_STDOUT_LENGTH), 0)
  ELSE Output(out.text, Min(out.blanks, MAX_STDOUT_LENGTH - Len(out.text)))

\* The message of a caught error, or a fixed diagnostic, as the stderr of a
\* result: the message is kept as one piece.
Message(m) == Output(<<m>>, 0)

\* `main file not found${params.language ? `: language: ${params.language}` : ''}`
\* with params.language given by its length.
MainFileNotFound(language) ==
  IF language = Undefined THEN Message("main file not found")
  ELSE Output(<<"main file not found", ": language: ">>, language)

IsBlank(c) == c \in {" ", "\n", "\t"}

\* The maximal runs of non-blank characters of text[i..], cur being the run
\* that is open at i.
RECURSIVE TokensFrom(_, _, _)
TokensFrom(text, i, cur) ==
  IF i > Len(text) THEN (IF cur = <<>> THEN <<>> ELSE <<cur>>)
  ELSE IF IsBlank(text[i])
       THEN (IF cur = <<>> THEN <<>> ELSE <<cur>>) \o TokensFrom(text, i + 1, <<>>)
       ELSE TokensFrom(text, i + 1, Append(cur, text[i]))

\* Equality of two texts as sequences of non-blank tokens.
compareStdoutAsSpaceSeparatedTokens(stdout, expected) ==
  TokensFrom(stdout, 1, <<>>) = TokensFrom(expected, 1, <<>>)

\* ---- readTestCases ----

\* The basenames of the model's fixture files, in ascending order of their
\* UTF-16 code units.
CodeUnitOrder == <<"01", "02", "03", "04">>

\* The place of each id in the order.
RankOf ==
  [name \in {CodeUnitOrder[k] : k \in 1..Len(CodeUnitOrder)} |->
     CHOOSE k \in 1..Len(CodeUnitOrder) : CodeUnitOrder[k] = name]

Rank(name) == RankOf[name]

\* A slip: the ids are put in descending order.
RECURSIVE toSortedDescending(_)
toSortedDescending(idSet) ==
  IF idSet = {} THEN <<>>
  ELSE LET greatest == CHOOSE id \in idSet : \A o \in idSet : Rank(o) <= Rank(id)
       IN  <<greatest>> \o toSortedDescending(idSet \ {greatest})

\* [...idSet].toSorted()
RECURSIVE toSorted(_)
toSorted(idSet) ==
  IF idSet = {} THEN <<>>
  ELSE LET least == CHOOSE id \in idSet : \A o \in idSet : Rank(id) <= Rank(o)
       IN  <<least>> \o toSorted(idSet \ {least})

\* What the loop over the entries of the directory leaves in its set and
\* its two maps; a later entry of a name and extension replaces an earlier.
readTestCases(directory) ==
  LET read == {k \in 1..Len(directory) :
                 directory[k].isFile /\ directory[k].ext \in {".in", ".out"}}
      idSet == {directory[k].name : k \in read}
      get(id, ext) ==
        LET set == {k \in read : directory[k].name = id /\ directory[k].ext = ext}
        IN  IF set = {} THEN UndefinedText
            ELSE directory[CHOOSE k \in set : \A o \in set : o <= k].text
      ids == toSorted(idSet)
  IN  [k \in 1..Len(ids) |->
         [id |-> ids[k], stdin |-> get(ids[k], ".in"), stdout |-> get(ids[k], ".out")]]

\* ---- judgeByStaticAnalysis as one call ----

RECURSIVE ReadDirents(_, _)
ReadDirents(dirents, k) ==
  IF k > Len(dirents) THEN <<>>
  ELSE ReadDirent(dirents[k]) \o ReadDirents(dirents, k + 1)

RECURSIVE ForbiddenRows(_, _, _)
ForbiddenRows(files, rules, k) ==
  IF k > Len(files) THEN <<>>
  ELSE ForbiddenRowsOfFile(files[k], k, rules) \o ForbiddenRows(files, rules, k + 1)

\* The verdict on the files read.
VerdictOnFiles(files, problemMarkdownFrontMatterLike) ==
  StaticVerdict(files, ForbiddenRows(files, problemMarkdownFrontMatterLike, 1),
                problemMarkdownFrontMatterLike)

judgeByStaticAnalysis(dirents, problemMarkdownFrontMatterLike) ==
  VerdictOnFiles(ReadDirents(dirents, 1), problemMarkdownFrontMatterLike)

\* ---- classification ----

\* The extension of a path of the model's submissions.
ExtOf(filePath) ==
  CASE filePath = "main.c" -> ".c"
    [] filePath = "main.java" -> ".java"
    [] filePath = "Main.java" -> ".java"
    [] filePath = "main.py" -> ".py"
    [] OTHER -> ".dat"

LanguageOf(filePath) == findLanguageDefinitionByPath(ExtOf(filePath))

\* A slip: the placeholder is used whatever the test cases.
FirstTestCaseIdOrPlaceholder(cases, fallback) == fallback

\* testCases[0]?.id ?? fallback
FirstTestCaseIdOr(cases, fallback) == IF Len(cases) > 0 THEN cases[1].id ELSE fallback

\* A slip: the elapsed time of the build is looked at before its exit
\* status.
BuildDecisionTimeFirst(buildSpawnResult) ==
  IF buildSpawnResult.timeMs > BUILD_TIMEOUT_SECONDS * 1000 THEN "BUILD_TIME_LIMIT_EXCEEDED"
  ELSE IF buildSpawnResult.status # 0 THEN "BUILD_ERROR"
  ELSE IF Length(buildSpawnResult.stdout) > MAX_STDOUT_LENGTH
          \/ Length(buildSpawnResult.stderr) > MAX_STDOUT_LENGTH
       THEN "BUILD_OUTPUT_SIZE_LIMIT_EXCEEDED"
  ELSE "ACCEPTED"

\* The decision on the result of the build command.
BuildDecision(buildSpawnResult) ==
  IF buildSpawnResult.status # 0 THEN "BUILD_ERROR"
  ELSE IF buildSpawnResult.timeMs > BUILD_TIMEOUT_SECONDS * 1000 THEN "BUILD_TIME_LIMIT_EXCEEDED"
  ELSE IF Length(buildSpawnResult.stdout) > MAX_STDOUT_LENGTH
          \/ Length(buildSpawnResult.stderr) > MAX_STDOUT_LENGTH
       THEN "BUILD_OUTPUT_SIZE_LIMIT_EXCEEDED"
  ELSE "ACCEPTED"

\* The run timeout of judge mode, in milliseconds.
JudgeTimeoutMs(frontMatter) ==
  IF frontMatter.timeLimitMs # Undefined THEN frontMatter.timeLimitMs
  ELSE JUDGE_DEFAULT_TIMEOUT_SECONDS * 1000

\* A slip: debug mode takes the configured time limit, whatever it is, and
\* its default only when none is configured.
DebugTimeoutMsNoMinimum(frontMatter) ==
  IF frontMatter.timeLimitMs # Undefined THEN frontMatter.timeLimitMs
  ELSE DEBUG_DEFAULT_TIMEOUT_SECONDS * 1000

\* The run timeout of debug mode, in milliseconds.
DebugTimeoutMs(frontMatter) ==
  Max(DEBUG_DEFAULT_TIMEOUT_SECONDS * 1000,
      IF frontMatter.timeLimitMs # Undefined THEN frontMatter.timeLimitMs ELSE 0)

\* spawnResult.memoryBytes > (memoryLimitByte ?? Number.POSITIVE_INFINITY)
OverMemoryLimit(spawnResult, frontMatter) ==
  IF frontMatter.memoryLimitByte = Undefined THEN FALSE
  ELSE spawnResult.memoryBytes > frontMatter.memoryLimitByte

\* A slip: the elapsed time is looked at before the exit status.
RunDecisionTimeFirst(spawnResult, timeoutMs, frontMatter, outputFiles, testCase) ==
  IF spawnResult.timeMs > timeoutMs THEN "TIME_LIMIT_EXCEEDED"
  ELSE IF spawnResult.status # 0 THEN "RUNTIME_ERROR"
  ELSE IF OverMemoryLimit(spawnResult, frontMatter) THEN "MEMORY_LIMIT_EXCEEDED"
  ELSE IF Length(spawnResult.stdout) > MAX_STDOUT_LENGTH
          \/ Length(spawnResult.stderr) > MAX_STDOUT_LENGTH
       THEN "OUTPUT_SIZE_LIMIT_EXCEEDED"
  ELSE IF Len(outputFiles) < Len(frontMatter.requiredOutputFilePaths)
       THEN "MISSING_REQUIRED_OUTPUT_FILE_ERROR"
  ELSE IF ~compareStdoutAsSpaceSeparatedTokens(
             spawnResult.stdout.text,
             IF testCase.stdout = UndefinedText THEN <<>> ELSE testCase.stdout)
       THEN "WRONG_ANSWER"
  ELSE "ACCEPTED"

\* The decision of judge mode on the run of a test case.
RunDecision(spawnResult, timeoutMs, frontMatter, outputFiles, testCase) ==
  IF spawnResult.status # 0 THEN "RUNTIME_ERROR"
  ELSE IF spawnResult.timeMs > timeoutMs THEN "TIME_LIMIT_EXCEEDED"
  ELSE IF OverMemoryLimit(spawnResult, frontMatter) THEN "MEMORY_LIMIT_EXCEEDED"
  ELSE IF Length(spawnResult.stdout) > MAX_STDOUT_LENGTH
          \/ Length(spawnResult.stderr) > MAX_STDOUT_LENGTH
       THEN "OUTPUT_SIZE_LIMIT_EXCEEDED"
  ELSE IF Len(outputFiles) < Len(frontMatter.requiredOutputFilePaths)
       THEN "MISSING_REQUIRED_OUTPUT_FILE_ERROR"
  ELSE IF ~compareStdoutAsSpaceSeparatedTokens(
             spawnResult.stdout.text,
             IF testCase.stdout = UndefinedText THEN <<>> ELSE testCase.stdout)
       THEN "WRONG_ANSWER"
  ELSE "ACCEPTED"

\* A slip: debug mode decides as judge mode does, against an expected
\* output that is absent.
DebugRunDecisionComparing(spawnResult, timeoutMs, frontMatter, outputFiles) ==
  RunDecision(spawnResult, timeoutMs, frontMatter, outputFiles,
              [id |-> "debug", stdin |-> UndefinedText, stdout |-> UndefinedText])

\* The decision of debug mode on the run of the given input.
DebugRunDecision(spawnResult, timeoutMs, frontMatter, outputFiles) ==
  IF spawnResult.status # 0 THEN "RUNTIME_ERROR"
  ELSE IF spawnResult.timeMs > timeoutMs THEN "TIME_LIMIT_EXCEEDED"
  ELSE IF OverMemoryLimit(spawnResult, frontMatter) THEN "MEMORY_LIMIT_EXCEEDED"
  ELSE IF Length(spawnResult.stdout) > MAX_STDOUT_LENGTH
          \/ Length(spawnResult.stderr) > MAX_STDOUT_LENGTH
       THEN "OUTPUT_SIZE_LIMIT_EXCEEDED"
  ELSE IF Len(outputFiles) < Len(frontMatter.requiredOutputFilePaths)
       THEN "MISSING_REQUIRED_OUTPUT_FILE_ERROR"
  ELSE "ACCEPTED"

\* ---- the results printed ----

\* A TestCaseResult none of whose optional fields is present.  `stage` is
\* history, not printed: the stage of the preset that printed the result.
TestCaseResult(stage, testCaseId, decisionCode) ==
  [stage |-> stage, testCaseId |-> testCaseId, decisionCode |-> decisionCode,
   exitStatus |-> Undefined, stdin |-> UndefinedText, stdout |-> NoOutput,
   stderr |-> NoOutput, timeMs |-> Undefined, memoryBytes |-> Undefined,
   outputFiles |-> <<>>, feedbackMarkdown |-> NoVerdict]

\* The result printed for a build command that ran and was not accepted.
BuildResult(testCaseId, decisionCode, buildSpawnResult) ==
  [TestCaseResult("build", testCaseId, decisionCode) EXCEPT
     !.exitStatus = buildSpawnResult.status,
     !.stdout = SliceOrUndefined(buildSpawnResult.stdout),
     !.stderr = SliceOrUndefined(buildSpawnResult.stderr),
     !.timeMs = buildSpawnResult.timeMs,
     !.memoryBytes = buildSpawnResult.memoryBytes]

\* A slip: the result of a run does not hold the stdin of the test case.
RunResultWithoutStdin(testCaseId, decisionCode, stdin, spawnResult, outputFiles) ==
  [TestCaseResult("run", testCaseId, decisionCode) EXCEPT
     !.exitStatus = spawnResult.status,
     !.stdout = SliceOrUndefined(spawnResult.stdout),
     !.stderr = SliceOrUndefined(spawnResult.stderr),
     !.timeMs = spawnResult.timeMs,
     !.memoryBytes = spawnResult.memoryBytes,
     !.outputFiles = outputFiles]

\* A slip: a result printed takes the place of those printed before it.
printTestCaseResultOverwrites(printed, result) == <<result>>

\* printTestCaseResult: one more line on the standard output, after the
\* lines printed so far.
printTestCaseResult(printed, result) == Append(printed, result)

\* The result printed for a run.
RunResult(testCaseId, decisionCode, stdin, spawnResult, outputFiles) ==
  [TestCaseResult("run", testCaseId, decisionCode) EXCEPT
     !.exitStatus = spawnResult.status,
     !.stdin = stdin,
     !.stdout = SliceOrUndefined(spawnResult.stdout),
     !.stderr = SliceOrUndefined(spawnResult.stderr),
     !.timeMs = spawnResult.timeMs,
     !.memoryBytes = spawnResult.memoryBytes,
     !.outputFiles = outputFiles]

\* ---- what an invocation can find ----

\* The test_cases directory of n test cases, as readdir lists it: the
\* files of a later test case first, and beside them a directory and a
\* file of another extension.
RECURSIVE Fixture(_)
Fixture(n) ==
  IF n = 0
  THEN << [name |-> "old", ext |-> "", isFile |-> FALSE, text |-> <<>>],
          [name |-> "README", ext |-> ".md", isFile |-> TRUE, text |-> <<"a">>] >>
  ELSE << [name |-> CodeUnitOrder[n], ext |-> ".out", isFile |-> TRUE, text |-> <<"2", "\n">>],
          [name |-> CodeUnitOrder[n], ext |-> ".in", isFile |-> TRUE, text |-> <<"1", " ", "1", "\n">>] >>
       \o Fixture(n - 1)

\* The test_cases directory of n test cases in which the file of extension
\* `ext` of the k-th test case is missing.
FixtureLacking(n, k, ext) ==
  LET IsThere(f) == ~(f.name = CodeUnitOrder[k] /\ f.ext = ext)
  IN  SelectSeq(Fixture(n), IsThere)

\* The front matter of the problem: the limits, the required output files
\* and the rules of the static analysis.
JudgeFrontMatters ==
  [ timeLimitMs : {Undefined, 1000},
    memoryLimitByte : {Undefined, 1000},
    requiredOutputFilePaths : {<<>>, <<"out.txt">>},
    forbiddenRegExpsInCode : {<<>>},
    forbiddenTextsInCode : {<< <<"a", "a">> >>},
    requiredRegExpsInCode : {<< Lit(<<"b">>) >>} ]

DebugFrontMatters ==
  [ timeLimitMs : {Undefined, 1000, 20000},
    memoryLimitByte : {Undefined, 1000},
    requiredOutputFilePaths : {<<>>, <<"out.txt">>},
    forbiddenRegExpsInCode : {<<>>},
    forbiddenTextsInCode : {<< <<"a", "a">> >>},
    requiredRegExpsInCode : {<< Lit(<<"b">>) >>} ]

\* The sources of a submission: "clean" passes the rules above, "forbidden"
\* holds the forbidden text, "required" holds the required pattern in a
\* comment only.
SourceText(kind, flavour) ==
  CASE flavour = "clean" -> <<"a", "b">>
    [] flavour = "forbidden" -> <<"a", "a", "b">>
    [] flavour = "required" ->
         IF kind = "py" THEN <<"a", "#", "b">>
         ELSE IF kind \in {"c", "java"} THEN <<"a", "/", "/", "b">>
         ELSE <<"a">>

\* The listing of the submission directory whose entry file is `entry`
\* ("" when no file of the asked language is there).
Submission(entry, flavour) ==
  CASE entry = "main.py" -> << Dirent("py", SourceText("py", flavour)) >>
    [] entry = "main.c" -> << Dirent("c", SourceText("c", flavour)) >>
    [] entry = "main.java" -> << Dirent("java", SourceText("java", flavour)) >>
    [] entry = "data.dat" ->
         << Dirent("dat", <<"a", "a">>), Dirent("txt", SourceText("txt", flavour)) >>
    [] OTHER -> << Dirent("dir", <<>>), Dirent("txt", SourceText("txt", flavour)) >>

\* An output one character longer than the cap.
LongOutput(text) == Output(text, MAX_STDOUT_LENGTH + 1 - Len(text))

\* What spawnSyncWithTimeout can return for the build command.
BuildSpawnResults ==
  { [status |-> s, timeMs |-> t, memoryBytes |-> 1, stdout |-> o[1], stderr |-> o[2]] :
      s \in {0, 1, Undefined},
      t \in {BUILD_TIMEOUT_SECONDS * 1000, BUILD_TIMEOUT_SECONDS * 1000 + 1},
      o \in { <<NoOutput, NoOutput>>, <<LongOutput(<<"w">>), NoOutput>>,
              <<NoOutput, LongOutput(<<"e">>)>> } }

\* A spawn result that is accepted wherever it is classified.
QuietSpawnResult ==
  [status |-> 0, timeMs |-> 1, memoryBytes |-> 1, stdout |-> NoOutput, stderr |-> NoOutput]

\* What the build command does: it throws on being spawned, or it returns.
BuildOutcomes ==
  { [throws |-> FALSE, result |-> r] : r \in BuildSpawnResults }
  \cup { [throws |-> TRUE, result |-> QuietSpawnResult] }

\* The entry file that is found, what the pre-build action of its language
\* does, the entry file found after it, and what the build command does.
Toolchains ==
  { [entry |-> e, prebuildThrows |-> FALSE, reresolved |-> "",
     build |-> [throws |-> FALSE, result |-> QuietSpawnResult]] :
      e \in {"", "data.dat", "main.py"} }
  \cup { [entry |-> "main.c", prebuildThrows |-> FALSE, reresolved |-> "", build |-> b] :
           b \in BuildOutcomes }
  \cup { [entry |-> "main.java", prebuildThrows |-> FALSE, reresolved |-> r, build |-> b] :
           r \in {"", "Main.java"}, b \in BuildOutcomes }
  \cup { [entry |-> "main.java", prebuildThrows |-> TRUE, reresolved |-> "", build |-> b] :
           b \in { [throws |-> FALSE, result |-> QuietSpawnResult],
                   [throws |-> FALSE, result |-> [QuietSpawnResult EXCEPT !.status = 1]] } }

\* What spawnSyncWithTimeout can return for a run under the timeout.
SpawnResults(timeoutMs) ==
  [ status : {0, 1, Undefined},
    timeMs : {timeoutMs, timeoutMs + 1},
    memoryBytes : {1000, 1001},
    stdout : { Output(<<"2", "\n">>, 0), Output(<<" ", "2">>, 0), Output(<<"8", "\n">>, 0),
               LongOutput(<<"2">>) },
    stderr : { Output(<<>>, MAX_STDOUT_LENGTH), LongOutput(<<>>) } ]

\* The required output files readOutputFiles can find.
OutputFilesFound(frontMatter) ==
  { SubSeq(frontMatter.requiredOutputFilePaths, 1, n) :
      n \in 0..Len(frontMatter.requiredOutputFilePaths) }

\* What a run does: the spawn throws, the reading of the output files
\* throws, or both return.
RunOutcomes(timeoutMs, frontMatter) ==
  { [throws |-> "", spawnResult |-> r, outputFiles |-> f] :
      r \in SpawnResults(timeoutMs), f \in OutputFilesFound(frontMatter) }
  \cup { [throws |-> w, spawnResult |-> QuietSpawnResult, outputFiles |-> <<>>] :
           w \in {"spawn", "readOutputFiles"} }

\* An invocation of judge.ts: argv, the problem directory and the
\* submission directory params.cwd names.
JudgeEnv(argv, problem, frontMatter, fixturesReadable, n, cwdReadable, flavour, toolchain) ==
  [preset |-> "judge", argv |-> argv, problem |-> problem, frontMatter |-> frontMatter,
   fixturesReadable |-> fixturesReadable, fixtures |-> Fixture(n),
   cwdReadable |-> cwdReadable, dirents |-> Submission(toolchain.entry, flavour),
   toolchain |-> toolchain, stdin |-> UndefinedText, language |-> Undefined]

PlainToolchain ==
  [entry |-> "main.py", prebuildThrows |-> FALSE, reresolved |-> "",
   build |-> [throws |-> FALSE, result |-> QuietSpawnResult]]

PlainFrontMatter ==
  [timeLimitMs |-> Undefined, memoryLimitByte |-> Undefined, requiredOutputFilePaths |-> <<>>,
   forbiddenRegExpsInCode |-> <<>>, forbiddenTextsInCode |-> << <<"a", "a">> >>,
   requiredRegExpsInCode |-> << Lit(<<"b">>) >>]

Flavours == {"clean", "forbidden", "required"}

\* A submission directory in which no entry file is found.
NoEntryToolchain == [PlainToolchain EXCEPT !.entry = ""]

\* params.language, by its length as a string: the name of a language, or
\* a string as long as the cap on the outputs.
LanguageParams == {2, MAX_STDOUT_LENGTH}

JudgeEnvs ==
  { JudgeEnv("ok", "ok", fm, TRUE, n, TRUE, fl, tc) :
      fm \in JudgeFrontMatters, n \in 0..MaxTests, fl \in Flavours, tc \in Toolchains }
  \cup { JudgeEnv(a, "ok", PlainFrontMatter, TRUE, n, TRUE, fl, PlainToolchain) :
           a \in {"missing", "notJson", "noCwd"}, n \in 0..MaxTests, fl \in Flavours }
  \cup { JudgeEnv("ok", pr, PlainFrontMatter, TRUE, n, TRUE, fl, PlainToolchain) :
           pr \in {"absent", "malformed"}, n \in 0..MaxTests, fl \in Flavours }
  \cup { JudgeEnv("ok", "ok", PlainFrontMatter, FALSE, 0, TRUE, fl, PlainToolchain) :
           fl \in Flavours }
  \cup { JudgeEnv("ok", "ok", PlainFrontMatter, TRUE, n, FALSE, "clean", PlainToolchain) :
           n \in 0..MaxTests }
  \cup { [JudgeEnv("ok", "ok", PlainFrontMatter, TRUE, n, TRUE, "clean", PlainToolchain)
            EXCEPT !.fixtures = FixtureLacking(n, k, ext)] :
           n \in 1..MaxTests, k \in 1..MaxTests, ext \in {".in", ".out"} }
  \cup { [JudgeEnv("ok", "ok", PlainFrontMatter, TRUE, n, TRUE, "clean", tc)
            EXCEPT !.language = l] :
           n \in 0..MaxTests, tc \in {PlainToolchain, NoEntryToolchain}, l \in LanguageParams }

DebugEnv(argv, problem, frontMatter, cwdReadable, flavour, toolchain) ==
  [preset |-> "debug", argv |-> argv, problem |-> problem, frontMatter |-> frontMatter,
   fixturesReadable |-> TRUE, fixtures |-> <<>>,
   cwdReadable |-> cwdReadable, dirents |-> Submission(toolchain.entry, flavour),
   toolchain |-> toolchain, stdin |-> <<"1", " ", "1">>, language |-> Undefined]

DebugEnvs ==
  { DebugEnv("ok", "ok", fm, TRUE, fl, tc) :
      fm \in DebugFrontMatters, fl \in {"clean", "forbidden"}, tc \in Toolchains }
  \cup { DebugEnv(a, "ok", PlainFrontMatter, TRUE, fl, PlainToolchain) :
           a \in {"missing", "notJson", "noCwd"}, fl \in {"clean", "forbidden"} }
  \cup { DebugEnv("ok", pr, PlainFrontMatter, TRUE, fl, PlainToolchain) :
           pr \in {"absent", "malformed"}, fl \in {"clean", "forbidden"} }
  \cup { DebugEnv("ok", "ok", fm, FALSE, "clean", PlainToolchain) : fm \in DebugFrontMatters }
  \cup { [DebugEnv("ok", "ok", PlainFrontMatter, TRUE, "clean", tc) EXCEPT !.language = l] :
           tc \in {PlainToolchain, NoEntryToolchain}, l \in LanguageParams }

\* ------------------------------------------------------------------------
\* stdioJudgePreset
\* ------------------------------------------------------------------------

\* A slip: the entry file and its language are resolved before the sources
\* are analysed.
StageAfterEntryFirst(stage) ==
  CASE stage = "start" -> "entry"
    [] stage = "entry" -> "language"
    [] stage = "language" -> "staticAnalysis"
    [] stage = "staticAnalysis" -> "prebuild"
    [] stage = "prebuild" -> "build"
    [] stage = "build" -> "run"

\* The order of the stages in the body of the preset.
StageAfter(stage) ==
  CASE stage = "start" -> "staticAnalysis"
    [] stage = "staticAnalysis" -> "entry"
    [] stage = "entry" -> "language"
    [] stage = "language" -> "prebuild"
    [] stage = "prebuild" -> "build"
    [] stage = "build" -> "run"

\* A slip: the preset goes on after printing the result of a stage.
AfterVerdictGoesOn(stage) == StageAfter(stage)

\* The `return` after the result of a stage before the runs is printed.
AfterVerdict(stage) == "done"

\* A slip: the loop over the test cases never breaks.
ShouldBreakNever(decisionCode) == FALSE

\* if (decisionCode !== DecisionCode.ACCEPTED) break;
ShouldBreak(decisionCode) == decisionCode # "ACCEPTED"

\* printTestCaseResult, followed by the return of the stage.
PrintAndReturn(stage, result) ==
  /\ results' = printTestCaseResult(results, result)
  /\ pc' = AfterVerdict(stage)
  /\ fault' = fault

\* A stage passes.
Pass(stage) ==
  /\ pc' = StageAfter(stage)
  /\ UNCHANGED <<results, fault>>

\* An error nothing catches ends the invocation.
Throw(message) ==
  /\ pc' = "aborted"
  /\ fault' = message
  /\ UNCHANGED results

\* A slip: parseArgs returns whatever argv holds.
parseArgsAccepts(argv) == ""

\* parseArgs: the message of the error it throws on argv, "" when it
\* returns the parsed parameters.
parseArgs(argv) ==
  CASE argv = "missing" -> "params argument required"
    [] argv = "notJson" -> "bad params argument"
    [] OTHER -> ""

\* judgeParamsSchema.parse (and debugParamsSchema.parse, which extends it):
\* the error it throws on parameters without a `cwd`, "" when they pass.
judgeParamsSchema(argv) == IF argv = "noCwd" THEN "ZodError" ELSE ""

JudgeInit ==
  /\ TokIdle
  /\ SaIdle
  /\ env \in JudgeEnvs
  /\ pc = "start"
  /\ testCases = <<>>
  /\ mainFilePath = ""
  /\ idx = 1
  /\ spawns = <<>>
  /\ results = <<>>
  /\ fault = ""

\* parseArgs, judgeParamsSchema.parse, readProblemMarkdownFrontMatter and
\* readTestCases: the first that throws ends the invocation.
JudgeStart ==
  /\ env.preset = "judge"
  /\ pc = "start"
  /\ IF parseArgs(env.argv) # "" THEN Throw(parseArgs(env.argv)) /\ UNCHANGED testCases
     ELSE IF judgeParamsSchema(env.argv) # ""
     THEN Throw(judgeParamsSchema(env.argv)) /\ UNCHANGED testCases
     ELSE IF env.problem = "absent" THEN Throw("problem markdown not found") /\ UNCHANGED testCases
     ELSE IF env.problem = "malformed" THEN Throw("ZodError") /\ UNCHANGED testCases
     ELSE IF ~env.fixturesReadable THEN Throw("ENOENT") /\ UNCHANGED testCases
     ELSE testCases' = readTestCases(env.fixtures) /\ Pass("start")
  /\ UNCHANGED <<env, mainFilePath, idx, spawns>>
  /\ UNCHANGED <<tokVars, saVars>>

\* if (staticAnalysisTestCaseResult) { printTestCaseResult(...); return; }
PrintIfVerdict(staticAnalysisTestCaseResult) ==
  IF staticAnalysisTestCaseResult # NoVerdict
  THEN PrintAndReturn("staticAnalysis",
         [TestCaseResult("staticAnalysis", FirstTestCaseIdOr(testCases, "prebuild"),
                         staticAnalysisTestCaseResult.decisionCode)
            EXCEPT !.feedbackMarkdown = staticAnalysisTestCaseResult])
  ELSE Pass("staticAnalysis")

\* judgeByStaticAnalysis and the printing of its verdict
JudgeStaticAnalysis ==
  /\ env.preset = "judge"
  /\ pc = "staticAnalysis"
  /\ IF ~env.cwdReadable THEN Throw("ENOENT")
     ELSE PrintIfVerdict(judgeByStaticAnalysis(env.dirents, env.frontMatter))
  /\ UNCHANGED <<env, testCases, mainFilePath, idx, spawns>>
  /\ UNCHANGED <<tokVars, saVars>>

\* findEntryPointFile
JudgeFindEntryPointFile ==
  /\ env.preset = "judge"
  /\ pc = "entry"
  /\ IF ~env.cwdReadable THEN Throw("ENOENT") /\ UNCHANGED mainFilePath
     ELSE IF env.toolchain.entry = ""
     THEN /\ PrintAndReturn("entry",
                [TestCaseResult("entry", FirstTestCaseIdOr(testCases, "prebuild"),
                                "MISSING_REQUIRED_SUBMISSION_FILE_ERROR")
                   EXCEPT !.stderr = MainFileNotFound(env.language)])
          /\ UNCHANGED mainFilePath
     ELSE mainFilePath' = env.toolchain.entry /\ Pass("entry")
  /\ UNCHANGED <<env, testCases, idx, spawns>>
  /\ UNCHANGED <<tokVars, saVars>>

\* findLanguageDefinitionByPath
JudgeFindLanguageDefinition ==
  /\ env.preset = "judge"
  /\ pc = "language"
  /\ IF LanguageOf(mainFilePath) = 0
     THEN PrintAndReturn("language",
            [TestCaseResult("language", FirstTestCaseIdOr(testCases, "prebuild"), "WRONG_ANSWER")
               EXCEPT !.stderr = Message("unsupported language")])
     ELSE Pass("language")
  /\ UNCHANGED <<env, testCases, mainFilePath, idx, spawns>>
  /\ UNCHANGED <<tokVars, saVars>>

\* A slip: the catch block throws the error again.
CaughtRethrown(stage, testCaseId, message) == Throw(message)

\* The catch block of a stage: the error is printed as a BUILD_ERROR result
\* whose stderr is the message of the error, and the preset returns.
Caught(stage, testCaseId, message) ==
  PrintAndReturn(stage,
    [TestCaseResult(stage, testCaseId, "BUILD_ERROR") EXCEPT !.stderr = Message(message)])

\* A slip: the entry file found before the pre-build action is kept.
MainFilePathBeforePrebuild(prebuiltMainFilePath, originalMainFilePath) ==
  originalMainFilePath

\* prebuiltMainFilePath ?? originalMainFilePath; "" is no entry file found.
MainFilePathAfterPrebuild(prebuiltMainFilePath, originalMainFilePath) ==
  IF prebuiltMainFilePath # "" THEN prebuiltMainFilePath ELSE originalMainFilePath

\* the pre-build action of the language, if it has one, and the entry file
\* found after it
JudgePrebuild ==
  /\ env.preset = "judge"
  /\ pc = "prebuild"
  /\ IF LanguageOf(mainFilePath) # 0 /\ languageIdToDefinition[LanguageOf(mainFilePath)].prebuild
     THEN IF env.toolchain.prebuildThrows
          THEN /\ Caught("prebuild", FirstTestCaseIdOr(testCases, "prebuild"), "prebuild error")
               /\ UNCHANGED mainFilePath
          ELSE /\ mainFilePath' = MainFilePathAfterPrebuild(env.toolchain.reresolved,
                                                            mainFilePath)
               /\ Pass("prebuild")
     ELSE Pass("prebuild") /\ UNCHANGED mainFilePath
  /\ UNCHANGED <<env, testCases, idx, spawns>>
  /\ UNCHANGED <<tokVars, saVars>>

\* the build command of the language, if it has one
JudgeBuild ==
  /\ env.preset = "judge"
  /\ pc = "build"
  /\ IF LanguageOf(mainFilePath) # 0 /\ languageIdToDefinition[LanguageOf(mainFilePath)].buildCommand
     THEN /\ spawns' = Append(spawns,
                 [kind |-> "build", testCase |-> 0, file |-> mainFilePath,
                  timeoutMs |-> BUILD_TIMEOUT_SECONDS * 1000,
                  throws |-> IF env.toolchain.build.throws THEN "spawn" ELSE "",
                  result |-> env.toolchain.build.result, outputFiles |-> <<>>])
          /\ IF env.toolchain.build.throws
             THEN Caught("build", FirstTestCaseIdOr(testCases, "build"), "build error")
             ELSE LET buildSpawnResult == env.toolchain.build.result
                      decisionCode == BuildDecision(buildSpawnResult)
                  IN  IF decisionCode # "ACCEPTED"
                      THEN PrintAndReturn("build",
                             BuildResult(FirstTestCaseIdOr(testCases, "build"), decisionCode,
                                         buildSpawnResult))
                      ELSE Pass("build")
     ELSE Pass("build") /\ UNCHANGED spawns
  /\ UNCHANGED <<env, testCases, mainFilePath, idx>>
  /\ UNCHANGED <<tokVars, saVars>>

\* one iteration of the loop over the test cases
JudgeRun ==
  /\ env.preset = "judge"
  /\ pc = "run"
  /\ idx <= Len(testCases)
  /\ \E outcome \in RunOutcomes(JudgeTimeoutMs(env.frontMatter), env.frontMatter) :
       LET testCase == testCases[idx]
           timeoutMs == JudgeTimeoutMs(env.frontMatter)
           decisionCode == RunDecision(outcome.spawnResult, timeoutMs, env.frontMatter,
                                       outcome.outputFiles, testCase)
       IN  /\ spawns' = Append(spawns,
                  [kind |-> "run", testCase |-> idx, file |-> mainFilePath,
                   timeoutMs |-> timeoutMs, throws |-> outcome.throws,
                   result |-> outcome.spawnResult, outputFiles |-> outcome.outputFiles])
           /\ IF outcome.throws # ""
              THEN Throw(outcome.throws) /\ UNCHANGED idx
              ELSE /\ results' = printTestCaseResult(results,
                         RunResult(testCase.id, decisionCode, testCase.stdin,
                                   outcome.spawnResult, outcome.outputFiles))
                   /\ fault' = fault
                   /\ IF ShouldBreak(decisionCode)
                      THEN pc' = "done" /\ UNCHANGED idx
                      ELSE pc' = pc /\ idx' = idx + 1
  /\ UNCHANGED <<env, testCases, mainFilePath>>
  /\ UNCHANGED <<tokVars, saVars>>

\* the loop over the test cases is exhausted
JudgeReturn ==
  /\ env.preset = "judge"
  /\ pc = "run"
  /\ idx > Len(testCases)
  /\ pc' = "done"
  /\ UNCHANGED <<env, testCases, mainFilePath, idx, spawns, results, fault>>
  /\ UNCHANGED <<tokVars, saVars>>

Next ==
  \/ JudgeStart
  \/ JudgeStaticAnalysis
  \/ JudgeFindEntryPointFile
  \/ JudgeFindLanguageDefinition
  \/ JudgePrebuild
  \/ JudgeBuild
  \/ JudgeRun
  \/ JudgeReturn

Spec == JudgeInit /\ [][Next]_vars

\* ------------------------------------------------------------------------
\* stdioDebugPreset
\* ------------------------------------------------------------------------

\* printTestCaseResult, followed by the return of the preset.
DebugPrintAndReturn(result) ==
  /\ results' = printTestCaseResult(results, result)
  /\ pc' = "done"
  /\ fault' = fault

\* A stage of the debug preset passes to the next.
DebugPass(next) ==
  /\ pc' = next
  /\ UNCHANGED <<results, fault>>

DebugInit ==
  /\ TokIdle
  /\ SaIdle
  /\ env \in DebugEnvs
  /\ pc = "start"
  /\ testCases = <<>>
  /\ mainFilePath = ""
  /\ idx = 1
  /\ spawns = <<>>
  /\ results = <<>>
  /\ fault = ""

\* parseArgs, debugParamsSchema.parse and readProblemMarkdownFrontMatter:
\* the first that throws ends the invocation.
DebugStart ==
  /\ env.preset = "debug"
  /\ pc = "start"
  /\ IF parseArgs(env.argv) # "" THEN Throw(parseArgs(env.argv))
     ELSE IF judgeParamsSchema(env.argv) # "" THEN Throw(judgeParamsSchema(env.argv))
     ELSE IF env.problem = "absent" THEN Throw("problem markdown not found")
     ELSE IF env.problem = "malformed" THEN Throw("ZodError")
     ELSE DebugPass("entry")
  /\ UNCHANGED <<env, testCases, mainFilePath, idx, spawns>>
  /\ UNCHANGED <<tokVars, saVars>>

\* findEntryPointFile
DebugFindEntryPointFile ==
  /\ env.preset = "debug"
  /\ pc = "entry"
  /\ IF ~env.cwdReadable THEN Throw("ENOENT") /\ UNCHANGED mainFilePath
     ELSE IF env.toolchain.entry = ""
     THEN /\ DebugPrintAndReturn(
                [TestCaseResult("entry", "prebuild", "MISSING_REQUIRED_SUBMISSION_FILE_ERROR")
                   EXCEPT !.stderr = MainFileNotFound(env.language)])
          /\ UNCHANGED mainFilePath
     ELSE mainFilePath' = env.toolchain.entry /\ DebugPass("language")
  /\ UNCHANGED <<env, testCases, idx, spawns>>
  /\ UNCHANGED <<tokVars, saVars>>

\* findLanguageDefinitionByPath
DebugFindLanguageDefinition ==
  /\ env.preset = "debug"
  /\ pc = "language"
  /\ IF LanguageOf(mainFilePath) = 0
     THEN DebugPrintAndReturn(
            [TestCaseResult("language", "prebuild", "WRONG_ANSWER")
               EXCEPT !.stderr = Message("unsupported language")])
     ELSE DebugPass("prebuild")
  /\ UNCHANGED <<env, testCases, mainFilePath, idx, spawns>>
  /\ UNCHANGED <<tokVars, saVars>>

\* the pre-build action of the language, if it has one, and the entry file
\* found after it
DebugPrebuild ==
  /\ env.preset = "debug"
  /\ pc = "prebuild"
  /\ IF languageIdToDefinition[LanguageOf(mainFilePath)].prebuild
     THEN IF env.toolchain.prebuildThrows
          THEN /\ DebugPrintAndReturn(
                     [TestCaseResult("prebuild", "prebuild", "BUILD_ERROR")
                        EXCEPT !.stderr = Message("prebuild error")])
               /\ UNCHANGED mainFilePath
          ELSE /\ mainFilePath' = MainFilePathAfterPrebuild(env.toolchain.reresolved,
                                                            mainFilePath)
               /\ DebugPass("build")
     ELSE DebugPass("build") /\ UNCHANGED mainFilePath
  /\ UNCHANGED <<env, testCases, idx, spawns>>
  /\ UNCHANGED <<tokVars, saVars>>

\* the build command of the language, if it has one
DebugBuild ==
  /\ env.preset = "debug"
  /\ pc = "build"
  /\ IF languageIdToDefinition[LanguageOf(mainFilePath)].buildCommand
     THEN /\ spawns' = Append(spawns,
                 [kind |-> "build", testCase |-> 0, file |-> mainFilePath,
                  timeoutMs |-> BUILD_TIMEOUT_SECONDS * 1000,
                  throws |-> IF env.toolchain.build.throws THEN "spawn" ELSE "",
                  result |-> env.toolchain.build.result, outputFiles |-> <<>>])
          /\ IF env.toolchain.build.throws
             THEN DebugPrintAndReturn(
                    [TestCaseResult("build", "build", "BUILD_ERROR")
                       EXCEPT !.stderr = Message("build error")])
             ELSE IF BuildDecision(env.toolchain.build.result) # "ACCEPTED"
             THEN DebugPrintAndReturn(
                    BuildResult("build", BuildDecision(env.toolchain.build.result),
                                env.toolchain.build.result))
             ELSE DebugPass("run")
     ELSE DebugPass("run") /\ UNCHANGED spawns
  /\ UNCHANGED <<env, testCases, mainFilePath, idx>>
  /\ UNCHANGED <<tokVars, saVars>>

\* the run of the given input
DebugRun ==
  /\ env.preset = "debug"
  /\ pc = "run"
  /\ \E outcome \in RunOutcomes(DebugTimeoutMs(env.frontMatter), env.frontMatter) :
       /\ spawns' = Append(spawns,
              [kind |-> "run", testCase |-> 0, file |-> mainFilePath,
               timeoutMs |-> DebugTimeoutMs(env.frontMatter), throws |-> outcome.throws,
               result |-> outcome.spawnResult, outputFiles |-> outcome.outputFiles])
       /\ IF outcome.throws # ""
          THEN Throw(outcome.throws)
          ELSE DebugPrintAndReturn(
                 RunResult("debug",
                           DebugRunDecision(outcome.spawnResult, DebugTimeoutMs(env.frontMatter),
                                            env.frontMatter, outcome.outputFiles),
                           env.stdin, outcome.spawnResult, outcome.outputFiles))
  /\ UNCHANGED <<env, testCases, mainFilePath, idx>>
  /\ UNCHANGED <<tokVars, saVars>>

DebugNext ==
  \/ DebugStart
  \/ DebugFindEntryPointFile
  \/ DebugFindLanguageDefinition
  \/ DebugPrebuild
  \/ DebugBuild
  \/ DebugRun

SpecDebug == DebugInit /\ [][DebugNext]_vars

\* ------------------------------------------------------------------------
\* The invocations of judge.ts and of debug.ts together
\* ------------------------------------------------------------------------

PresetsInit == JudgeInit \/ DebugInit

PresetsNext == Next \/ DebugNext

SpecPresets == PresetsInit /\ [][PresetsNext]_vars

\* ------------------------------------------------------------------------
\* findMainFile
\* ------------------------------------------------------------------------

\* A file name is the sequence of its characters.
LowerCase ==
  <<"a", "b", "c", "d", "e", "f", "g", "h", "i", "j", "k", "l", "m",
    "n", "o", "p", "q", "r", "s", "t", "u", "v", "w", "x", "y", "z">>

UpperCase ==
  <<"A", "B", "C", "D", "E", "F", "G", "H", "I", "J", "K", "L", "M",
    "N", "O", "P", "Q", "R", "S", "T", "U", "V", "W", "X", "Y", "Z">>

\* The characters of the file names.
Characters ==
  {"_", "."} \cup {LowerCase[k] : k \in 1..Len(LowerCase)}
             \cup {UpperCase[k] : k \in 1..Len(UpperCase)}

IsUpperCase(c) == \E k \in 1..Len(UpperCase) : UpperCase[k] = c

\* String.prototype.toLowerCase, on a character and on a name
LowerCaseOf ==
  [c \in Characters |->
     IF IsUpperCase(c) THEN LowerCase[CHOOSE k \in 1..Len(UpperCase) : UpperCase[k] = c]
     ELSE c]

CharToLowerCase(c) == LowerCaseOf[c]

toLowerCase(name) == [k \in 1..Len(name) |-> CharToLowerCase(name[k])]

\* String.prototype.startsWith and String.prototype.endsWith
startsWith(name, prefix) ==
  Len(prefix) <= Len(name) /\ SubSeq(name, 1, Len(prefix)) = prefix

endsWith(name, suffix) ==
  Len(suffix) <= Len(name) /\ SubSeq(name, Len(name) - Len(suffix) + 1, Len(name)) = suffix

\* The characters in the order of their primary weights in the collation of
\* String.prototype.localeCompare: punctuation before the letters, a letter
\* and its capital at the same place.
PrimaryOrder == <<"_", ".">> \o LowerCase

PrimaryWeightOf ==
  [c \in Characters |->
     CHOOSE k \in 1..Len(PrimaryOrder) : PrimaryOrder[k] = CharToLowerCase(c)]

PrimaryWeight(c) == PrimaryWeightOf[c]

\* The first position at which the names differ at the primary level (with
\* `fold`) or at all (without); 0 when one is a prefix of the other.
FirstDifference(a, b, fold) ==
  LET differ == {k \in 1..Min(Len(a), Len(b)) :
                   IF fold THEN PrimaryWeight(a[k]) # PrimaryWeight(b[k]) ELSE a[k] # b[k]}
  IN  IF differ = {} THEN 0 ELSE CHOOSE k \in differ : \A o \in differ : k <= o

\* a.localeCompare(b): negative, zero or positive.  The primary weights
\* decide, a shorter name before those it begins; between names equal up
\* to case the small letter goes before its capital.
localeCompare(a, b) ==
  IF FirstDifference(a, b, TRUE) # 0
  THEN PrimaryWeight(a[FirstDifference(a, b, TRUE)])
         - PrimaryWeight(b[FirstDifference(a, b, TRUE)])
  ELSE IF Len(a) # Len(b) THEN Len(a) - Len(b)
  ELSE IF FirstDifference(a, b, FALSE) = 0 THEN 0
  ELSE IF IsUpperCase(a[FirstDifference(a, b, FALSE)]) THEN 1 ELSE -1

\* The last is most prioritized.
PRIOTIZED_MAIN_FILE_NAMES == << <<"i", "n", "d", "e", "x">>, <<"m", "a", "i", "n">> >>

IGNORED_FILE_EXTENSIONS ==
  { <<".", "D", "S", "_", "S", "t", "o", "r", "e">>, <<".", "c", "l", "a", "s", "s">> }

\* No name: what findMainFile returns when it finds nothing.
NoName == <<>>

\* The `fileExtension` field findMainFile and stdioPreset read in a
\* definition of the catalog.  The catalog at hand names its field
\* `fileExtensions`; the field read is taken to hold the same extensions.
fileExtension(id) ==
  CASE id = "c" -> { <<".", "c">> }
    [] id = "java" -> { <<".", "j", "a", "v", "a">> }
    [] id = "python" -> { <<".", "p", "y">> }
    [] id = "text" -> { <<".", "t", "x", "t">> }
    [] OTHER -> {}

\* language && [language].flat().flatMap((language) => ...fileExtension ?? []):
\* the extensions of the languages named.  params.language is a record:
\* whether it is given and, if so, the list of the names.
FileExtensionsOf(language) ==
  UNION { fileExtension(language.names[k]) : k \in 1..Len(language.names) }

\* The three `continue` of the loop: the entry is skipped.
Skipped(dirent, language) ==
  \/ ~dirent.isFile
  \/ \E ext \in IGNORED_FILE_EXTENSIONS : endsWith(dirent.name, ext)
  \/ /\ language.given
     /\ ~\E ext \in FileExtensionsOf(language) : endsWith(dirent.name, ext)

\* PRIOTIZED_MAIN_FILE_NAMES.findLastIndex(...), counted from 0; -1 when
\* the name begins with none.
DirentPrioryty(name) ==
  LET hits == {k \in 1..Len(PRIOTIZED_MAIN_FILE_NAMES) :
                 startsWith(toLowerCase(name), PRIOTIZED_MAIN_FILE_NAMES[k] \o <<".">>)}
  IN  IF hits = {} THEN -1 ELSE (CHOOSE k \in hits : \A o \in hits : o <= k) - 1

\* A slip: every entry that is not skipped takes the place of the one kept.
ReplacesAlways(name, direntPrioryty, mainFileName, mainFilePrioryty) == TRUE

\* The condition under which the entry takes the place of the one kept.
Replaces(name, direntPrioryty, mainFileName, mainFilePrioryty) ==
  \/ mainFileName = NoName
  \/ IF direntPrioryty = mainFilePrioryty
     THEN localeCompare(name, mainFileName) < 0
     ELSE direntPrioryty > mainFilePrioryty

\* The loop from the k-th entry of the listing on, with the name kept so
\* far and its priority.
RECURSIVE FindMainFileLoop(_, _, _, _, _)
FindMainFileLoop(dirents, language, k, mainFileName, mainFilePrioryty) ==
  IF k > Len(dirents) THEN mainFileName
  ELSE IF Skipped(dirents[k], language)
  THEN FindMainFileLoop(dirents, language, k + 1, mainFileName, mainFilePrioryty)
  ELSE IF Replaces(dirents[k].name, DirentPrioryty(dirents[k].name),
                   mainFileName, mainFilePrioryty)
  THEN FindMainFileLoop(dirents, language, k + 1,
                        dirents[k].name, DirentPrioryty(dirents[k].name))
  ELSE FindMainFileLoop(dirents, language, k + 1, mainFileName, mainFilePrioryty)

findMainFile(dirents, language) == FindMainFileLoop(dirents, language, 1, NoName, -1)

\* ------------------------------------------------------------------------
\* stdioPreset
\* ------------------------------------------------------------------------

\* The longest listing of a submission directory.
MaxListing == 3

\* The entries a submission directory can hold, in no order.
CwdDirents ==
  { [name |-> n, isFile |-> TRUE] :
      n \in { <<"a", ".", "c">>, <<"i", "n", "d", "e", "x", ".", "c">>,
              <<"m", "a", "i", "n", ".", "c">>, <<"M", "a", "i", "n", ".", "j", "a", "v", "a">>,
              <<"m", "a", "i", "n", ".", "p", "y">>,
              <<"M", "a", "i", "n", ".", "c", "l", "a", "s", "s">>,
              <<".", "D", "S", "_", "S", "t", "o", "r", "e">>,
              <<"n", "o", "t", "e", "s", ".", "m", "d">> } }
  \cup { [name |-> <<"m", "a", "i", "n", ".", "d">>, isFile |-> FALSE] }

\* The listings readdir can return: entries of different names, in any
\* order.
Listings ==
  { l \in UNION { [1..n -> CwdDirents] : n \in 0..MaxListing } :
      \A i, j \in 1..Len(l) : i # j => l[i] # l[j] }

NoLanguage == [given |-> FALSE, names |-> <<>>]

LanguagesGiven ==
  { NoLanguage, [given |-> TRUE, names |-> <<"java", "python">>],
    [given |-> TRUE, names |-> <<"c">>], [given |-> TRUE, names |-> <<"cobol">>] }

\* What spawnSyncWithTimeout can do for a run of stdioPreset: throw, or
\* return.
StdioRunOutcomes(timeoutMs) ==
  { [throws |-> "", outputFiles |-> <<>>,
     spawnResult |-> [status |-> s, timeMs |-> t, memoryBytes |-> 1,
                      stdout |-> Output(o, 0), stderr |-> NoOutput]] :
      s \in {0, 1}, t \in {timeoutMs, timeoutMs + 1}, o \in { <<"2", "\n">>, <<"8", "\n">> } }
  \cup { [throws |-> "spawn", spawnResult |-> QuietSpawnResult, outputFiles |-> <<>>] }

\* An invocation of the preset.
StdioEnv(argv, problem, frontMatter, fixturesReadable, n, cwdReadable, dirents, language,
         prebuildThrows, build) ==
  [preset |-> "stdio", argv |-> argv, problem |-> problem, frontMatter |-> frontMatter,
   fixturesReadable |-> fixturesReadable, fixtures |-> Fixture(n),
   cwdReadable |-> cwdReadable, dirents |-> dirents, language |-> language,
   prebuildThrows |-> prebuildThrows, build |-> build]

QuietBuild == [throws |-> FALSE, result |-> QuietSpawnResult]

\* The listing that holds the one file of the name.
Only(name) == << [name |-> name, isFile |-> TRUE] >>

StdioEnvs ==
  { StdioEnv("ok", "ok", PlainFrontMatter, TRUE, 0, TRUE, l, lang, FALSE, QuietBuild) :
      l \in Listings, lang \in LanguagesGiven }
  \cup { StdioEnv("ok", "ok", fm, TRUE, n, TRUE, Only(<<"m", "a", "i", "n", ".", "p", "y">>),
                  NoLanguage, FALSE, QuietBuild) :
           fm \in {PlainFrontMatter, [PlainFrontMatter EXCEPT !.timeLimitMs = 1000]},
           n \in 0..MaxTests }
  \cup { StdioEnv("ok", "ok", PlainFrontMatter, TRUE, n, TRUE,
                  Only(<<"m", "a", "i", "n", ".", "c">>), NoLanguage, FALSE, b) :
           n \in 0..1, b \in BuildOutcomes }
  \cup { StdioEnv("ok", "ok", PlainFrontMatter, TRUE, n, TRUE,
                  Only(<<"M", "a", "i", "n", ".", "j", "a", "v", "a">>), NoLanguage, t, QuietBuild) :
           n \in 0..1, t \in BOOLEAN }
  \cup { StdioEnv(a, "ok", PlainFrontMatter, TRUE, 1, TRUE,
                  Only(<<"m", "a", "i", "n", ".", "p", "y">>), NoLanguage, FALSE, QuietBuild) :
           a \in {"missing", "notJson", "noCwd"} }
  \cup { StdioEnv("ok", pr, PlainFrontMatter, TRUE, 1, TRUE,
                  Only(<<"m", "a", "i", "n", ".", "p", "y">>), NoLanguage, FALSE, QuietBuild) :
           pr \in {"absent", "malformed"} }
  \cup { StdioEnv("ok", "ok", PlainFrontMatter, r[1], 1, r[2],
                  Only(<<"m", "a", "i", "n", ".", "p", "y">>), NoLanguage, FALSE, QuietBuild) :
           r \in { <<FALSE, TRUE>>, <<TRUE, FALSE>> } }

\* Object.values(languageIdToDefinition).find(...): the index in the catalog
\* of the first definition with an extension the path ends with; 0 when
\* there is none.
FindByFileExtension(filePath) ==
  LET hits == {k \in 1..Len(languageIdToDefinition) :
                 \E e \in fileExtension(languageIdToDefinition[k].id) : endsWith(filePath, e)}
  IN  IF hits = {} THEN 0 ELSE CHOOSE k \in hits : \A o \in hits : k <= o

StdioInit ==
  /\ TokIdle
  /\ SaIdle
  /\ env \in StdioEnvs
  /\ pc = "start"
  /\ testCases = <<>>
  /\ mainFilePath = NoName
  /\ idx = 1
  /\ spawns = <<>>
  /\ results = <<>>
  /\ fault = ""

\* parseArgs, paramsSchema.parse, readProblemMarkdownFrontMatter and
\* readTestCases: the first that throws ends the invocation.
StdioStart ==
  /\ env.preset = "stdio"
  /\ pc = "start"
  /\ IF parseArgs(env.argv) # "" THEN Throw(parseArgs(env.argv)) /\ UNCHANGED testCases
     ELSE IF judgeParamsSchema(env.argv) # ""
     THEN Throw(judgeParamsSchema(env.argv)) /\ UNCHANGED testCases
     ELSE IF env.problem = "absent" THEN Throw("problem markdown not found") /\ UNCHANGED testCases
     ELSE IF env.problem = "malformed" THEN Throw("ZodError") /\ UNCHANGED testCases
     ELSE IF ~env.fixturesReadable THEN Throw("ENOENT") /\ UNCHANGED testCases
     ELSE testCases' = readTestCases(env.fixtures) /\ DebugPass("entry")
  /\ UNCHANGED <<env, mainFilePath, idx, spawns>>
  /\ UNCHANGED <<tokVars, saVars>>

\* findMainFile and the result printed when it finds nothing
StdioFindMainFile ==
  /\ env.preset = "stdio"
  /\ pc = "entry"
  /\ IF ~env.cwdReadable THEN Throw("ENOENT") /\ UNCHANGED mainFilePath
     ELSE /\ mainFilePath' = findMainFile(env.dirents, env.language)
          /\ IF findMainFile(env.dirents, env.language) = NoName
             THEN PrintAndReturn("entry",
                    [TestCaseResult("entry", FirstTestCaseIdOr(testCases, "prebuild"),
                                    "MISSING_REQUIRED_SUBMISSION_FILE_ERROR")
                       EXCEPT !.stderr = Message(IF env.language.given
                                                 THEN "main file not found: language"
                                                 ELSE "main file not found")])
             ELSE DebugPass("language")
  /\ UNCHANGED <<env, testCases, idx, spawns>>
  /\ UNCHANGED <<tokVars, saVars>>

\* the definition of the catalog whose extension the entry file has
StdioFindLanguageDefinition ==
  /\ env.preset = "stdio"
  /\ pc = "language"
  /\ IF FindByFileExtension(mainFilePath) = 0
     THEN PrintAndReturn("language",
            [TestCaseResult("language", FirstTestCaseIdOr(testCases, "prebuild"), "WRONG_ANSWER")
               EXCEPT !.stderr = Message("unsupported language")])
     ELSE DebugPass("prebuild")
  /\ UNCHANGED <<env, testCases, mainFilePath, idx, spawns>>
  /\ UNCHANGED <<tokVars, saVars>>

\* the pre-build action of the language, if it has one
StdioPrebuild ==
  /\ env.preset = "stdio"
  /\ pc = "prebuild"
  /\ IF languageIdToDefinition[FindByFileExtension(mainFilePath)].prebuild
        /\ env.prebuildThrows
     THEN Caught("prebuild", FirstTestCaseIdOr(testCases, "prebuild"), "prebuild error")
     ELSE DebugPass("build")
  /\ UNCHANGED <<env, testCases, mainFilePath, idx, spawns>>
  /\ UNCHANGED <<tokVars, saVars>>

\* the build command of the language, if it has one
StdioBuild ==
  /\ env.preset = "stdio"
  /\ pc = "build"
  /\ IF languageIdToDefinition[FindByFileExtension(mainFilePath)].buildCommand
     THEN /\ spawns' = Append(spawns,
                 [kind |-> "build", testCase |-> 0, file |-> mainFilePath,
                  timeoutMs |-> BUILD_TIMEOUT_SECONDS * 1000,
                  throws |-> IF env.build.throws THEN "spawn" ELSE "",
                  result |-> env.build.result, outputFiles |-> <<>>])
          /\ IF env.build.throws
             THEN Caught("build", FirstTestCaseIdOr(testCases, "build"), "build error")
             ELSE IF BuildDecision(env.build.result) # "ACCEPTED"
             THEN PrintAndReturn("build",
                    BuildResult(FirstTestCaseIdOr(testCases, "build"),
                                BuildDecision(env.build.result), env.build.result))
             ELSE DebugPass("run")
     ELSE DebugPass("run") /\ UNCHANGED spawns
  /\ UNCHANGED <<env, testCases, mainFilePath, idx>>
  /\ UNCHANGED <<tokVars, saVars>>

\* one iteration of the loop over the test cases: the result is printed and
\* the loop goes on to the next test case, whatever the decision
StdioRun ==
  /\ env.preset = "stdio"
  /\ pc = "run"
  /\ idx <= Len(testCases)
  /\ \E outcome \in StdioRunOutcomes(JudgeTimeoutMs(env.frontMatter)) :
       /\ spawns' = Append(spawns,
             [kind |-> "run", testCase |-> idx, file |-> mainFilePath,
              timeoutMs |-> JudgeTimeoutMs(env.frontMatter), throws |-> outcome.throws,
              result |-> outcome.spawnResult, outputFiles |-> outcome.outputFiles])
       /\ IF outcome.throws # ""
          THEN Throw(outcome.throws) /\ UNCHANGED idx
          ELSE /\ results' = printTestCaseResult(results,
                     RunResult(testCases[idx].id,
                               RunDecision(outcome.spawnResult, JudgeTimeoutMs(env.frontMatter),
                                           env.frontMatter, outcome.outputFiles, testCases[idx]),
                               testCases[idx].stdin, outcome.spawnResult, outcome.outputFiles))
               /\ fault' = fault
               /\ pc' = pc
               /\ idx' = idx + 1
  /\ UNCHANGED <<env, testCases, mainFilePath>>
  /\ UNCHANGED <<tokVars, saVars>>

\* the loop over the test cases is exhausted
StdioReturn ==
  /\ env.preset = "stdio"
  /\ pc = "run"
  /\ idx > Len(testCases)
  /\ pc' = "done"
  /\ UNCHANGED <<env, testCases, mainFilePath, idx, spawns, results, fault>>
  /\ UNCHANGED <<tokVars, saVars>>

StdioNext ==
  \/ StdioStart
  \/ StdioFindMainFile
  \/ StdioFindLanguageDefinition
  \/ StdioPrebuild
  \/ StdioBuild
  \/ StdioRun
  \/ StdioReturn

SpecStdio == StdioInit /\ [][StdioNext]_vars

\* ------------------------------------------------------------------------
\* Properties of stdioJudgePreset
\* ------------------------------------------------------------------------

PreRunStages == {"staticAnalysis", "entry", "language", "prebuild", "build"}

IsRunSpawn(s) == s.kind = "run"

\* The runs of test cases spawned so far, in order.
RunSpawns == SelectSeq(spawns, IsRunSpawn)

\* The judging got past every stage before the runs.
PreRunPassed ==
  /\ env.preset = "judge"
  /\ \/ pc = "run"
     \/ pc = "done" /\ \A k \in 1..Len(results) : results[k].stage = "run"
     \/ pc = "aborted" /\ RunSpawns # <<>>

\* C1: once the stages before the runs have passed, the test cases are run
\* one at a time in ascending order of their ids, the results printed are
\* those of the test cases up to and including the first that is not
\* ACCEPTED, every result before the last is ACCEPTED, and no test case
\* after a failing one is run.
C1_FailFast ==
  PreRunPassed =>
    LET n == Len(results)
    IN  /\ \A j, k \in 1..Len(testCases) : j < k => Rank(testCases[j].id) < Rank(testCases[k].id)
        /\ n <= Len(testCases)
        /\ \A k \in 1..n : results[k].stage = "run" /\ results[k].testCaseId = testCases[k].id
        /\ \A k \in 1..(n - 1) : results[k].decisionCode = "ACCEPTED"
        /\ \A k \in 1..Len(RunSpawns) : RunSpawns[k].testCase = k
        /\ Len(RunSpawns) = IF pc = "aborted" THEN n + 1 ELSE n
        /\ (n > 0 /\ results[n].decisionCode # "ACCEPTED") => pc = "done"
        /\ pc = "done" => \/ n = Len(testCases)
                          \/ n > 0 /\ results[n].decisionCode # "ACCEPTED"

\* Three test cases, of which the first is accepted and the second is not:
\* two results are printed and two runs spawned.
C1_Witness ==
  /\ PreRunPassed
  /\ pc = "done"
  /\ Len(testCases) = 3
  /\ Len(results) = 2
  /\ results[1].decisionCode = "ACCEPTED"
  /\ results[2].decisionCode = "WRONG_ANSWER"
  /\ Len(RunSpawns) = 2

\* The time limit of the run of a test case, in milliseconds.
TimeLimitMs ==
  IF env.frontMatter.timeLimitMs = Undefined THEN JUDGE_DEFAULT_TIMEOUT_SECONDS * 1000
  ELSE env.frontMatter.timeLimitMs

\* The k-th result is that of the k-th run, and its verdict is `code`
\* exactly when `holds` is the first of the conditions to hold.
VerdictOfRun(k) ==
  LET r == RunSpawns[k].result
      exitNot0 == r.status # 0
      overTime == r.timeMs > TimeLimitMs
      overMemory == env.frontMatter.memoryLimitByte # Undefined
                    /\ r.memoryBytes > env.frontMatter.memoryLimitByte
      overSize == Length(r.stdout) > MAX_STDOUT_LENGTH \/ Length(r.stderr) > MAX_STDOUT_LENGTH
      missingFile == Len(RunSpawns[k].outputFiles) < Len(env.frontMatter.requiredOutputFilePaths)
      wrong == TokensFrom(r.stdout.text, 1, <<>>) # TokensFrom(testCases[k].stdout, 1, <<>>)
  IN  CASE exitNot0 -> "RUNTIME_ERROR"
        [] ~exitNot0 /\ overTime -> "TIME_LIMIT_EXCEEDED"
        [] ~exitNot0 /\ ~overTime /\ overMemory -> "MEMORY_LIMIT_EXCEEDED"
        [] ~exitNot0 /\ ~overTime /\ ~overMemory /\ overSize -> "OUTPUT_SIZE_LIMIT_EXCEEDED"
        [] ~exitNot0 /\ ~overTime /\ ~overMemory /\ ~overSize /\ missingFile ->
             "MISSING_REQUIRED_OUTPUT_FILE_ERROR"
        [] ~exitNot0 /\ ~overTime /\ ~overMemory /\ ~overSize /\ ~missingFile /\ wrong ->
             "WRONG_ANSWER"
        [] OTHER -> "ACCEPTED"

\* C2: the verdict of every test case run is the first that applies of:
\* exit status not 0, RUNTIME_ERROR; time over the limit,
\* TIME_LIMIT_EXCEEDED; memory over a configured limit,
\* MEMORY_LIMIT_EXCEEDED; stdout or stderr over the cap,
\* OUTPUT_SIZE_LIMIT_EXCEEDED; fewer output files than required,
\* MISSING_REQUIRED_OUTPUT_FILE_ERROR; stdout not token-equal to the
\* expected one, WRONG_ANSWER; otherwise ACCEPTED.  MEMORY_LIMIT_EXCEEDED
\* is never the verdict when no memory limit is configured.
C2_RunClassification ==
  PreRunPassed =>
    \A k \in 1..Len(results) :
      /\ results[k].decisionCode = VerdictOfRun(k)
      /\ env.frontMatter.memoryLimitByte = Undefined =>
           results[k].decisionCode # "MEMORY_LIMIT_EXCEEDED"
      /\ ( /\ RunSpawns[k].result.timeMs <= TimeLimitMs
           /\ TokensFrom(RunSpawns[k].result.stdout.text, 1, <<>>)
                # TokensFrom(testCases[k].stdout, 1, <<>>)
           /\ Length(RunSpawns[k].result.stdout) <= MAX_STDOUT_LENGTH
           /\ Length(RunSpawns[k].result.stderr) <= MAX_STDOUT_LENGTH
           /\ ( env.frontMatter.memoryLimitByte = Undefined
                \/ RunSpawns[k].result.memoryBytes <= env.frontMatter.memoryLimitByte )
           /\ Len(RunSpawns[k].outputFiles) = Len(env.frontMatter.requiredOutputFilePaths) )
         => results[k].decisionCode =
              IF RunSpawns[k].result.status = 0 THEN "WRONG_ANSWER" ELSE "RUNTIME_ERROR"

\* A run that exits with status 1 after the time limit, over the memory
\* limit, with a wrong stdout and a stderr over the cap, is RUNTIME_ERROR.
C2_Witness ==
  /\ PreRunPassed
  /\ Len(results) = 2
  /\ results[2].decisionCode = "RUNTIME_ERROR"
  /\ RunSpawns[2].result.status = 1
  /\ RunSpawns[2].result.timeMs > TimeLimitMs
  /\ env.frontMatter.memoryLimitByte # Undefined
  /\ RunSpawns[2].result.memoryBytes > env.frontMatter.memoryLimitByte
  /\ Length(RunSpawns[2].result.stderr) > MAX_STDOUT_LENGTH
  /\ TokensFrom(RunSpawns[2].result.stdout.text, 1, <<>>) = << <<"8">> >>

\* The submissions of the judgings, each with the rules it is analysed by,
\* and what the static analysis says of each.
SubmissionsJudged == {<<e.dirents, e.frontMatter>> : e \in JudgeEnvs}

StaticVerdictOf ==
  [s \in SubmissionsJudged |-> judgeByStaticAnalysis(s[1], s[2])]

\* A stage before the runs would end the judging of the submission.
WouldFail(stage) ==
  LET entry == env.toolchain.entry
      known == entry # "" /\ LanguageOf(entry) # 0
      build == env.toolchain.build
  IN  CASE stage = "staticAnalysis" ->
             StaticVerdictOf[<<env.dirents, env.frontMatter>>] # NoVerdict
        [] stage = "entry" -> entry = ""
        [] stage = "language" -> entry # "" /\ LanguageOf(entry) = 0
        [] stage = "prebuild" ->
             /\ known
             /\ languageIdToDefinition[LanguageOf(entry)].prebuild
             /\ env.toolchain.prebuildThrows
        [] stage = "build" ->
             /\ known
             /\ languageIdToDefinition[LanguageOf(entry)].buildCommand
             /\ \/ build.throws
                \/ build.result.status # 0
                \/ build.result.timeMs > BUILD_TIMEOUT_SECONDS * 1000
                \/ Length(build.result.stdout) > MAX_STDOUT_LENGTH
                \/ Length(build.result.stderr) > MAX_STDOUT_LENGTH

\* The first stage of the order that would fail, "run" if none would.
RECURSIVE EarliestFailing(_, _)
EarliestFailing(order, k) ==
  IF k > Len(order) THEN "run"
  ELSE IF WouldFail(order[k]) THEN order[k]
  ELSE EarliestFailing(order, k + 1)

\* A judging that returned printed the verdict of the earliest failing
\* stage of the order and nothing else, or, when no stage of the order
\* fails, results of runs only.
VerdictOfEarliest(order) ==
  (env.preset = "judge" /\ pc = "done") =>
    LET stage == EarliestFailing(order, 1)
    IN  IF stage = "run" THEN \A k \in 1..Len(results) : results[k].stage = "run"
        ELSE Len(results) = 1 /\ results[1].stage = stage

\* C3 as amended: the stages are evaluated in the order static analysis,
\* entry resolution, language lookup, pre-build, build, run: when more
\* than one stage would fail, the single verdict printed is that of the
\* earliest failing stage in this order.
C3_StageOrder ==
  VerdictOfEarliest(<<"staticAnalysis", "entry", "language", "prebuild", "build">>)

\* C3 as claimed: the stages are evaluated in the order entry resolution
\* (with the language lookup), static analysis, pre-build, build, run, so
\* that a submission with no entry file and a forbidden pattern is
\* reported as a missing entry file.
C3_ClaimedStageOrder ==
  VerdictOfEarliest(<<"entry", "language", "staticAnalysis", "prebuild", "build">>)

\* A submission with no entry file and a forbidden pattern in its sources
\* was judged: the verdict is that of the static analysis.
C3_Witness ==
  /\ env.preset = "judge"
  /\ pc = "done"
  /\ WouldFail("entry")
  /\ WouldFail("staticAnalysis")
  /\ Len(results) = 1
  /\ results[1].decisionCode = "FORBIDDEN_PATTERNS_IN_CODE_ERROR"

\* C4: when a stage before the runs prints a verdict, it is the only
\* result of the judging and the judging is over: nothing is spawned after
\* a verdict of the static analysis, the entry resolution, the language
\* lookup or the pre-build, only the build command is spawned before a
\* verdict of the build, and no test case is run.
C4_OneResultBeforeRuns ==
  env.preset = "judge" =>
    \A k \in 1..Len(results) :
      results[k].stage \in PreRunStages =>
        /\ Len(results) = 1
        /\ pc = "done"
        /\ RunSpawns = <<>>
        /\ idx = 1
        /\ results[k].stage # "build" => spawns = <<>>
        /\ results[k].stage = "build" => Len(spawns) = 1 /\ spawns[1].kind = "build"

\* The static analysis ended the judging of a C submission with three test
\* cases: one result, and neither a build nor a run was spawned.
C4_Witness ==
  /\ env.preset = "judge"
  /\ pc = "done"
  /\ Len(testCases) = 3
  /\ env.toolchain.entry = "main.c"
  /\ Len(results) = 1
  /\ results[1].stage = "staticAnalysis"
  /\ spawns = <<>>

\* The pre-build action of the language of the entry file was called and
\* threw.
PrebuildThrew ==
  /\ env.preset = "judge"
  /\ mainFilePath # ""
  /\ LanguageOf(mainFilePath) # 0
  /\ languageIdToDefinition[LanguageOf(mainFilePath)].prebuild
  /\ env.toolchain.prebuildThrows
  /\ pc \notin {"start", "staticAnalysis", "entry", "language", "prebuild"}

\* The build command was called and threw before returning a result.
BuildThrew ==
  /\ env.preset = "judge"
  /\ spawns # <<>>
  /\ spawns[1].kind = "build"
  /\ spawns[1].throws # ""

\* C11: when the pre-build action throws, or the build command throws
\* before or while spawning, exactly one result is printed, it is a
\* BUILD_ERROR whose stderr is the message of the error, the invocation
\* returns without a fault, and no test case is run.
C11_BuildFaultsCaught ==
  (PrebuildThrew \/ BuildThrew) =>
    /\ pc = "done"
    /\ fault = ""
    /\ Len(results) = 1
    /\ results[1].decisionCode = "BUILD_ERROR"
    /\ results[1].stderr = Message(IF PrebuildThrew THEN "prebuild error" ELSE "build error")
    /\ results[1].testCaseId =
         FirstTestCaseIdOr(testCases, IF PrebuildThrew THEN "prebuild" ELSE "build")
    /\ RunSpawns = <<>>
    /\ idx = 1

\* The pre-build action of Java threw in a judging with three test cases.
C11_Witness ==
  /\ PrebuildThrew
  /\ Len(testCases) = 3
  /\ Len(results) = 1
  /\ results[1].stage = "prebuild"

\* C12: in an invocation whose parameters parse, no fault of the
\* infrastructure (an absent or malformed problem file, an unreadable
\* directory, a run that cannot be spawned) ends the invocation uncaught:
\* the invocation never dies of an error.
C12_InfrastructureFaultsCaught ==
  (env.preset = "judge" /\ env.argv = "ok") =>
    /\ fault = ""
    /\ pc # "aborted"

\* C13: a missing parameter argument, one that is not JSON, or one without
\* `cwd`, ends the invocation with a thrown error before any stage runs:
\* nothing is read, no result is printed and no process is spawned.
C13_BadParamsAbort ==
  (env.preset = "judge" /\ env.argv # "ok") =>
    /\ pc \in {"start", "aborted"}
    /\ results = <<>>
    /\ spawns = <<>>
    /\ testCases = <<>>
    /\ mainFilePath = ""
    /\ pc = "aborted" =>
         fault = CASE env.argv = "missing" -> "params argument required"
                   [] env.argv = "notJson" -> "bad params argument"
                   [] env.argv = "noCwd" -> "ZodError"

\* An invocation whose parameter argument is not JSON has ended, its
\* problem directory holding three test cases.
C13_Witness ==
  /\ env.preset = "judge"
  /\ env.argv = "notJson"
  /\ Len(env.fixtures) > 6
  /\ pc = "aborted"
  /\ fault = "bad params argument"
  /\ results = <<>>

\* The decision codes the run of a test case can get.
RunVerdicts ==
  {"ACCEPTED", "RUNTIME_ERROR", "TIME_LIMIT_EXCEEDED", "MEMORY_LIMIT_EXCEEDED",
   "OUTPUT_SIZE_LIMIT_EXCEEDED", "MISSING_REQUIRED_OUTPUT_FILE_ERROR", "WRONG_ANSWER"}

\* C14: when the extension of the resolved entry file belongs to no
\* language of the catalog, the judging ends with a single result whose
\* decision code is UNSUPPORTED_LANGUAGE, which no run of a test case can
\* get.
C14_UnsupportedLanguageVerdict ==
  (env.preset = "judge" /\ mainFilePath # "" /\ LanguageOf(mainFilePath) = 0 /\ pc = "done") =>
    /\ Len(results) = 1
    /\ results[1].decisionCode = "UNSUPPORTED_LANGUAGE"
    /\ results[1].decisionCode \notin RunVerdicts

\* The executor ended the process on timeout: no exit status, and an
\* elapsed time over the timeout it was given.
KilledOnTimeout(spawn) ==
  /\ spawn.throws = ""
  /\ spawn.result.status = Undefined
  /\ spawn.result.timeMs > spawn.timeoutMs

\* C15: an execution the executor ended on timeout gets the time-limit
\* verdict of its stage: TIME_LIMIT_EXCEEDED for the run of a test case,
\* BUILD_TIME_LIMIT_EXCEEDED for the build.
C15_TimeoutVerdict ==
  env.preset = "judge" =>
    /\ PreRunPassed =>
         \A k \in 1..Len(results) :
           KilledOnTimeout(RunSpawns[k]) => results[k].decisionCode = "TIME_LIMIT_EXCEEDED"
    /\ ( /\ spawns # <<>>
         /\ spawns[1].kind = "build"
         /\ KilledOnTimeout(spawns[1])
         /\ pc = "done" )
       => ( Len(results) = 1 /\ results[1].decisionCode = "BUILD_TIME_LIMIT_EXCEEDED" )

\* Output a is the first characters of output b, up to the cap.
IsCutOf(a, b) ==
  /\ Length(a) = Min(Length(b), MAX_STDOUT_LENGTH)
  /\ Len(a.text) <= Len(b.text)
  /\ a.text = SubSeq(b.text, 1, Len(a.text))
  /\ a.blanks <= b.blanks
  /\ a.blanks > 0 => Len(a.text) = Len(b.text)

OverCap(spawnResult) ==
  \/ Length(spawnResult.stdout) > MAX_STDOUT_LENGTH
  \/ Length(spawnResult.stderr) > MAX_STDOUT_LENGTH

\* The result echoes the outputs of the process, cut to the cap.
EchoesCut(result, spawnResult) ==
  /\ IsCutOf(result.stdout, spawnResult.stdout)
  /\ IsCutOf(result.stderr, spawnResult.stderr)
  /\ Length(result.stdout) <= MAX_STDOUT_LENGTH
  /\ Length(result.stderr) <= MAX_STDOUT_LENGTH

\* The size-limit verdicts are those of the processes whose outputs are
\* over the cap before they are cut, among the processes no earlier
\* condition of the classification applies to.
SizeVerdictsOnUncut ==
  /\ PreRunPassed =>
       \A k \in 1..Len(results) :
         LET r == RunSpawns[k].result
         IN  ( r.status = 0 /\ r.timeMs <= TimeLimitMs
               /\ ( env.frontMatter.memoryLimitByte = Undefined
                    \/ r.memoryBytes <= env.frontMatter.memoryLimitByte ) )
             => ( results[k].decisionCode = "OUTPUT_SIZE_LIMIT_EXCEEDED" <=> OverCap(r) )
  /\ ( spawns # <<>> /\ spawns[1].kind = "build" /\ spawns[1].throws = "" /\ pc # "build" )
     => LET b == spawns[1].result
        IN  ( b.status = 0 /\ b.timeMs <= BUILD_TIMEOUT_SECONDS * 1000 )
            => ( ( results # <<>>
                   /\ results[1].decisionCode = "BUILD_OUTPUT_SIZE_LIMIT_EXCEEDED" )
                 <=> OverCap(b) )

FixtureFiles ==
  {k \in 1..Len(env.fixtures) :
     env.fixtures[k].isFile /\ env.fixtures[k].ext \in {".in", ".out"}}

\* The content of the file of the directory with this basename and
\* extension, the absent text when there is no such file.
FixtureText(name, ext) ==
  LET found == {k \in FixtureFiles :
                  env.fixtures[k].name = name /\ env.fixtures[k].ext = ext}
  IN  IF found = {} THEN UndefinedText
      ELSE env.fixtures[CHOOSE k \in found : TRUE].text

\* The test cases were read.
TestCasesRead ==
  /\ env.preset = "judge"
  /\ pc # "start"
  /\ env.argv = "ok"
  /\ env.problem = "ok"
  /\ env.fixturesReadable

\* C18: the test cases read are one per distinct basename of the regular
\* .in and .out files of the directory, in ascending order of basename
\* without duplicates, each with the content of its .in file as stdin and
\* of its .out file as stdout (absent when the file is); the runs of judge
\* mode are those of the test cases in this order.
C18_TestCasesSorted ==
  TestCasesRead =>
    /\ {testCases[k].id : k \in 1..Len(testCases)}
         = {env.fixtures[k].name : k \in FixtureFiles}
    /\ Len(testCases) = Cardinality({env.fixtures[k].name : k \in FixtureFiles})
    /\ \A j, k \in 1..Len(testCases) : j < k => Rank(testCases[j].id) < Rank(testCases[k].id)
    /\ \A k \in 1..Len(testCases) :
         /\ testCases[k].stdin = FixtureText(testCases[k].id, ".in")
         /\ testCases[k].stdout = FixtureText(testCases[k].id, ".out")
    /\ \A k \in 1..Len(RunSpawns) : RunSpawns[k].testCase = k
    /\ PreRunPassed => \A k \in 1..Len(results) : results[k].testCaseId = testCases[k].id

\* A directory that lists its three test cases in descending order, the
\* third without an .out file: the three were run in ascending order.
C18_Witness ==
  /\ TestCasesRead
  /\ Len(testCases) = 3
  /\ env.fixtures[1].name = "03"
  /\ testCases[3].id = "03"
  /\ testCases[3].stdout = UndefinedText
  /\ testCases[3].stdin # UndefinedText
  /\ Len(RunSpawns) = 3
  /\ Len(results) = 3
  /\ results[3].testCaseId = "03"

\* C19: when the judging has ended and the run of every test case was
\* classified ACCEPTED, there is exactly one result per test case, in the
\* order of the test cases, each ACCEPTED and holding the stdin of its test
\* case and the stdout of the program; every test case was run once.
C19_AllAccepted ==
  ( /\ PreRunPassed
    /\ pc = "done"
    /\ \A k \in 1..Len(results) : results[k].decisionCode = "ACCEPTED" )
  => /\ Len(results) = Len(testCases)
     /\ Len(RunSpawns) = Len(testCases)
     /\ \A k \in 1..Len(testCases) :
          /\ results[k].testCaseId = testCases[k].id
          /\ results[k].decisionCode = "ACCEPTED"
          /\ results[k].stdin = testCases[k].stdin
          /\ results[k].stdout = RunSpawns[k].result.stdout
          /\ RunSpawns[k].testCase = k

\* Three test cases were accepted, the second on a stdout that is equal to
\* the expected one as tokens only.
C19_Witness ==
  /\ PreRunPassed
  /\ pc = "done"
  /\ Len(testCases) = 3
  /\ Len(results) = 3
  /\ \A k \in 1..3 : results[k].decisionCode = "ACCEPTED"
  /\ results[2].stdout.text = <<" ", "2">>
  /\ results[2].stdin = <<"1", " ", "1", "\n">>

\* What a step may do to the results: leave them as they are, or print one
\* more after them.  A step that runs a test case to its end prints the
\* result of this test case in the same step, so that it is printed before
\* the next test case is started; no test case has two results.
ResultsStep ==
  /\ \/ results' = results
     \/ /\ Len(results') = Len(results) + 1
        /\ SubSeq(results', 1, Len(results)) = results
  /\ (Len(spawns') > Len(spawns) /\ spawns'[Len(spawns')].kind = "run") =>
       /\ Len(spawns') = Len(spawns) + 1
       /\ Len(SelectSeq(spawns, IsRunSpawn)) = Len(results)
       /\ spawns'[Len(spawns')].throws = "" =>
            /\ Len(results') = Len(results) + 1
            /\ results'[Len(results')].testCaseId = testCases[spawns'[Len(spawns')].testCase].id
            /\ results'[Len(results')].stage = "run"
  /\ \A j, k \in 1..Len(results') : j < k => results'[j].testCaseId # results'[k].testCaseId

\* C20: the results are written once and only appended: every step leaves
\* the results printed so far unchanged and at most prints one more after
\* them; the result of a test case is printed once, in the step that ran
\* it and so before the next test case is started, and the results are in
\* the order in which the test cases were run.
C20_AppendOnly == [][env.preset = "judge" => ResultsStep]_vars

\* Three results were printed, one after each of three runs.
C20_Witness ==
  /\ env.preset = "judge"
  /\ Len(results) = 3
  /\ Len(RunSpawns) = 3
  /\ \A k \in 1..3 : results[k].testCaseId = testCases[RunSpawns[k].testCase].id

\* C22: a result printed by a stage before the runs (static analysis, entry
\* resolution, language lookup, pre-build, build) carries the id of the
\* first test case, the smallest of the ids read, whenever a test case
\* exists; without any test case it carries 'build' when the build stage
\* printed it and 'prebuild' otherwise.
C22_PreRunResultIds ==
  env.preset = "judge" =>
    \A k \in 1..Len(results) :
      results[k].stage \in PreRunStages =>
        IF Len(testCases) > 0
        THEN /\ results[k].testCaseId = testCases[1].id
             /\ \A j \in 1..Len(testCases) :
                  Rank(results[k].testCaseId) <= Rank(testCases[j].id)
        ELSE results[k].testCaseId =
               (IF results[k].stage = "build" THEN "build" ELSE "prebuild")

\* The build of a submission with three test cases fails, and the result
\* carries the id of the first.
C22_Witness ==
  /\ env.preset = "judge"
  /\ Len(testCases) = 3
  /\ Len(results) = 1
  /\ results[1].stage = "build"
  /\ results[1].decisionCode = "BUILD_TIME_LIMIT_EXCEEDED"
  /\ results[1].testCaseId = "01"

IsBuildSpawn(s) == s.kind = "build"

\* The build commands spawned so far.
BuildSpawns == SelectSeq(spawns, IsBuildSpawn)

\* The first condition of the claim the result of the build command meets.
BuildVerdict(r) ==
  IF r.status # 0 THEN "BUILD_ERROR"
  ELSE IF r.timeMs > 10 * 1000 THEN "BUILD_TIME_LIMIT_EXCEEDED"
  ELSE IF Length(r.stdout) > MAX_STDOUT_LENGTH \/ Length(r.stderr) > MAX_STDOUT_LENGTH
       THEN "BUILD_OUTPUT_SIZE_LIMIT_EXCEEDED"
  ELSE "passes"

\* The build stage printed no result and the preset went on to the runs.
BuildPassed ==
  /\ \A k \in 1..Len(results) : results[k].stage # "build"
  /\ pc = "run" \/ Len(RunSpawns) > 0 \/ (pc = "done" /\ Len(testCases) = Len(RunSpawns))

\* C23: the result of the build command is classified by the first of:
\* exit status not 0 -> BUILD_ERROR, elapsed time over 10 s ->
\* BUILD_TIME_LIMIT_EXCEEDED, stdout or stderr over the cap ->
\* BUILD_OUTPUT_SIZE_LIMIT_EXCEEDED; otherwise the build passes, nothing is
\* printed for it and the runs follow.  For a language without a build
\* command no build is spawned and the runs follow the pre-build stage.
C23_BuildClassification ==
  env.preset = "judge" =>
    /\ Len(BuildSpawns) <= 1
    /\ \A k \in 1..Len(BuildSpawns) :
         BuildSpawns[k].throws = "" =>
           IF BuildVerdict(BuildSpawns[k].result) = "passes" THEN BuildPassed
           ELSE /\ Len(results) = 1
                /\ results[1].stage = "build"
                /\ results[1].decisionCode = BuildVerdict(BuildSpawns[k].result)
                /\ pc = "done"
                /\ Len(RunSpawns) = 0
    /\ (pc \in {"run", "done"} /\ mainFilePath # "" /\ LanguageOf(mainFilePath) # 0
        /\ ~languageIdToDefinition[LanguageOf(mainFilePath)].buildCommand
        /\ \A k \in 1..Len(results) : results[k].stage = "run") =>
         Len(BuildSpawns) = 0 /\ BuildPassed

\* A build that exits with 0 after more than 10 s with an stdout over the
\* cap: the time decides.
C23_Witness ==
  /\ env.preset = "judge"
  /\ Len(BuildSpawns) = 1
  /\ BuildSpawns[1].result.status = 0
  /\ BuildSpawns[1].result.timeMs > 10 * 1000
  /\ Length(BuildSpawns[1].result.stdout) > MAX_STDOUT_LENGTH
  /\ Len(results) = 1
  /\ results[1].decisionCode = "BUILD_TIME_LIMIT_EXCEEDED"

\* The pre-build action of the language of the entry file has completed,
\* and so has the resolution after it.
PrebuildCompleted ==
  /\ env.preset = "judge"
  /\ mainFilePath # ""
  /\ LanguageOf(env.toolchain.entry) # 0
  /\ languageIdToDefinition[LanguageOf(env.toolchain.entry)].prebuild
  /\ pc \in {"build", "run", "done", "aborted"}
  /\ \A k \in 1..Len(results) :
       results[k].stage \notin {"staticAnalysis", "entry", "language", "prebuild"}

\* C29: after a pre-build action that completes, the build and the runs use
\* the entry file resolved after it (the renamed Java file); when that
\* resolution finds nothing they use the entry file resolved before the
\* pre-build, and no MISSING_REQUIRED_SUBMISSION_FILE_ERROR result is
\* printed.
C29_EntryResolvedAfterPrebuild ==
  PrebuildCompleted =>
    /\ mainFilePath = (IF env.toolchain.reresolved # "" THEN env.toolchain.reresolved
                       ELSE env.toolchain.entry)
    /\ \A k \in 1..Len(spawns) : spawns[k].file = mainFilePath
    /\ \A k \in 1..Len(results) :
         results[k].decisionCode # "MISSING_REQUIRED_SUBMISSION_FILE_ERROR"

\* main.java is renamed Main.java by the pre-build action, then built and
\* run under that name.
C29_Witness ==
  /\ PrebuildCompleted
  /\ env.toolchain.entry = "main.java"
  /\ mainFilePath = "Main.java"
  /\ Len(BuildSpawns) = 1
  /\ BuildSpawns[1].file = "Main.java"
  /\ Len(RunSpawns) = 2
  /\ RunSpawns[2].file = "Main.java"

\* Every stage before the runs passes on what the invocation finds: no
\* verdict of the static analysis, an entry file of a known language, a
\* pre-build action that does not throw and a build that is accepted.
EveryPreRunStagePasses ==
  /\ env.cwdReadable
  /\ judgeByStaticAnalysis(env.dirents, env.frontMatter) = NoVerdict
  /\ env.toolchain.entry # ""
  /\ LanguageOf(mainFilePath) # 0
  /\ languageIdToDefinition[LanguageOf(mainFilePath)].prebuild => ~env.toolchain.prebuildThrows
  /\ languageIdToDefinition[LanguageOf(mainFilePath)].buildCommand =>
       /\ ~env.toolchain.build.throws
       /\ BuildDecision(env.toolchain.build.result) = "ACCEPTED"

\* C34: a judging never prints more results than it has test cases, one
\* result when it has none; and a judging that returns having printed
\* nothing read no test case and passed every stage before the runs.
C34_ResultCount ==
  env.preset = "judge" =>
    /\ Len(results) <= Max(1, Len(testCases))
    /\ (pc = "done" /\ fault = "" /\ results = <<>>) =>
         /\ testCases = <<>>
         /\ readTestCases(env.fixtures) = <<>>
         /\ EveryPreRunStagePasses

\* A judging without test cases returned after an accepted build, having
\* printed nothing.
C34_Witness ==
  /\ env.preset = "judge"
  /\ pc = "done"
  /\ fault = ""
  /\ results = <<>>
  /\ testCases = <<>>
  /\ BuildSpawns # <<>>

\* ------------------------------------------------------------------------
\* Properties of stdioDebugPreset
\* ------------------------------------------------------------------------

\* C10: every invocation of debug mode whose parameters parse prints
\* exactly one result, with the id 'prebuild', 'build' or 'debug': when it
\* has ended there is one result, and there is never more than one.
C10_DebugPrintsOneResult ==
  env.preset = "debug" =>
    /\ Len(results) <= 1
    /\ \A k \in 1..Len(results) : results[k].testCaseId \in {"prebuild", "build", "debug"}
    /\ (env.argv = "ok" /\ pc \in {"done", "aborted"}) => Len(results) = 1

\* The run passes the five checks of debug mode: exit status, time, memory,
\* output size and required output files.
RunPasses(s) ==
  /\ s.result.status = 0
  /\ s.result.timeMs <= s.timeoutMs
  /\ ~OverMemoryLimit(s.result, env.frontMatter)
  /\ Length(s.result.stdout) <= MAX_STDOUT_LENGTH
  /\ Length(s.result.stderr) <= MAX_STDOUT_LENGTH
  /\ Len(s.outputFiles) >= Len(env.frontMatter.requiredOutputFilePaths)

\* What the static analysis of judge mode would say of the submission.
StaticAnalysisOfSubmission == judgeByStaticAnalysis(env.dirents, env.frontMatter)

\* Every stage of debug mode before the run passes on what the invocation
\* finds.
DebugPreRunPasses ==
  /\ env.toolchain.entry # ""
  /\ LanguageOf(mainFilePath) # 0
  /\ languageIdToDefinition[LanguageOf(mainFilePath)].prebuild => ~env.toolchain.prebuildThrows
  /\ languageIdToDefinition[LanguageOf(mainFilePath)].buildCommand =>
       /\ ~env.toolchain.build.throws
       /\ BuildDecision(env.toolchain.build.result) = "ACCEPTED"

\* C35: debug mode analyses no source and compares no output: no result
\* says forbidden or required patterns, a submission is built and run
\* whatever the static analysis would say of it, there is one run at most,
\* and its result is ACCEPTED exactly when the exit status, the time, the
\* memory, the size of the outputs and the required output files pass.
C35_DebugNoStaticAnalysis ==
  env.preset = "debug" =>
    /\ \A k \in 1..Len(results) :
         /\ results[k].decisionCode \notin {"FORBIDDEN_PATTERNS_IN_CODE_ERROR",
                                            "REQUIRED_PATTERNS_IN_CODE_ERROR"}
         /\ results[k].stage = "run" => results[k].decisionCode # "WRONG_ANSWER"
    /\ Len(RunSpawns) <= 1
    /\ (pc = "done" /\ DebugPreRunPasses) => Len(RunSpawns) = 1
    /\ (pc = "done" /\ RunSpawns # <<>>) =>
         /\ Len(results) = 1
         /\ results[1].stage = "run"
         /\ results[1].decisionCode = "ACCEPTED" <=> RunPasses(RunSpawns[1])

\* A submission that holds a forbidden text was built and run, and its run
\* was accepted.
C35_Witness ==
  /\ env.preset = "debug"
  /\ pc = "done"
  /\ StaticAnalysisOfSubmission.decisionCode = "FORBIDDEN_PATTERNS_IN_CODE_ERROR"
  /\ BuildSpawns # <<>>
  /\ Len(RunSpawns) = 1
  /\ Len(results) = 1
  /\ results[1].decisionCode = "ACCEPTED"
  /\ results[1].stdout # NoOutput

\* ------------------------------------------------------------------------
\* Properties of findMainFile and stdioPreset
\* ------------------------------------------------------------------------

\* The entry file of the invocation is resolved.
EntryResolved ==
  /\ env.preset = "stdio"
  /\ pc \in {"language", "prebuild", "build", "run", "done"} \/ fault = "spawn"

\* A regular file that is not ignored and, when languages are named, has an
\* extension of one of them.
IsCandidate(dirent, language) ==
  /\ dirent.isFile
  /\ \A ext \in IGNORED_FILE_EXTENSIONS : ~endsWith(dirent.name, ext)
  /\ language.given =>
       \E k \in 1..Len(language.names) :
         \E ext \in fileExtension(language.names[k]) : endsWith(dirent.name, ext)

Candidates(dirents, language) ==
  {dirents[k].name : k \in {j \in 1..Len(dirents) : IsCandidate(dirents[j], language)}}

\* main.* over index.* over any other name, whatever the case of the letters
NamePriority(name) ==
  IF startsWith(toLowerCase(name), <<"m", "a", "i", "n", ".">>) THEN 2
  ELSE IF startsWith(toLowerCase(name), <<"i", "n", "d", "e", "x", ".">>) THEN 1
  ELSE 0

\* The name a goes before the name b.
Preferred(a, b) ==
  \/ NamePriority(a) > NamePriority(b)
  \/ NamePriority(a) = NamePriority(b) /\ localeCompare(a, b) < 0

\* The listing in the order p of its entries.
Reordered(dirents, order) == [k \in 1..Len(dirents) |-> dirents[order[k]]]

C30_RunTimeouts ==
  /\ \A k \in 1..Len(RunSpawns) :
       IF env.preset = "debug"
       THEN /\ RunSpawns[k].timeoutMs >= 10 * 1000
            /\ env.frontMatter.timeLimitMs # Undefined =>
                 RunSpawns[k].timeoutMs >= env.frontMatter.timeLimitMs
            /\ \/ RunSpawns[k].timeoutMs = 10 * 1000
               \/ RunSpawns[k].timeoutMs = env.frontMatter.timeLimitMs
       ELSE RunSpawns[k].timeoutMs =
              (IF env.frontMatter.timeLimitMs # Undefined THEN env.frontMatter.timeLimitMs
               ELSE 2 * 1000)
  /\ \A j, k \in 1..Len(RunSpawns) : RunSpawns[j].timeoutMs = RunSpawns[k].timeoutMs

\* Debug mode runs a problem whose time limit is below 10 s with a timeout
\* of 10 s.
C30_Witness ==
  /\ env.preset = "debug"
  /\ env.frontMatter.timeLimitMs = 1000
  /\ Len(RunSpawns) = 1
  /\ RunSpawns[1].timeoutMs = 10 * 1000

====
